---- MODULE Spec2Model ----
(***************************************************************************)
(* Model of the consensus-ai round protocol (api/app/channel.py), its      *)
(* gateway (api/app/agent.py) and the run supervisor                       *)
(* (api/app/services/consensus_service.py).                                *)
(*                                                                         *)
(* Text is a sequence of tokens.  A token is a word without whitespace,    *)
(* the colon, a space or a line break; the three sentinels are words.      *)
(* An Optional value is a sequence of length 0 (None) or 1 (the value).    *)
(***************************************************************************)
EXTENDS Integers, Sequences, FiniteSets, TLC

\* ------------------------------------------------------------------ bounds
MaxRounds == 2
MaxParticipants == 2
MaxRuns == 2

\* ThreadPoolExecutor(max_workers=4)
max_workers == 4

\* ------------------------------------------------------------------- text
None == << >>
Some(x) == << x >>

WS == {" ", "\n"}

Sentinels == {"CONSENSUS_REACHED", "CONTINUE_DISCUSSION", "CONSENSUS_FAILED"}

\* str.upper() on one token
UpperTok(t) ==
    CASE t = "consensus_reached" -> "CONSENSUS_REACHED"
      [] t = "continue_discussion" -> "CONTINUE_DISCUSSION"
      [] t = "consensus_failed" -> "CONSENSUS_FAILED"
      [] t = "Consensus_Reached" -> "CONSENSUS_REACHED"
      [] t = "Continue_Discussion" -> "CONTINUE_DISCUSSION"
      [] t = "Consensus_Failed" -> "CONSENSUS_FAILED"
      [] t = "close" -> "CLOSE"
      [] t = "stopped." -> "STOPPED."
      [] t = "Channel" -> "CHANNEL"
      [] t = "x" -> "X"
      [] OTHER -> t

\* str.upper()
Upper(s) == [i \in 1..Len(s) |-> UpperTok(s[i])]

RECURSIVE LStrip(_)
LStrip(s) == IF s # << >> /\ Head(s) \in WS THEN LStrip(Tail(s)) ELSE s

RECURSIVE RStrip(_)
RStrip(s) ==
    IF s # << >> /\ s[Len(s)] \in WS THEN RStrip(SubSeq(s, 1, Len(s) - 1)) ELSE s

\* str.strip()
Strip(s) == RStrip(LStrip(s))

\* str.startswith(prefix) for a one-word prefix
StartsWith(s, word) == s # << >> /\ s[1] = word

RECURSIVE Join(_, _)
\* sep.join(parts)
Join(sep, parts) ==
    IF parts = << >> THEN << >>
    ELSE IF Len(parts) = 1 THEN parts[1]
    ELSE parts[1] \o sep \o Join(sep, Tail(parts))

Digits == <<"1", "2", "3", "4", "5", "6", "7", "8", "9">>

RECURSIVE Str(_)
\* str(n) for a positive number
Str(n) ==
    IF n < 10 THEN Digits[n]
    ELSE Str(n \div 10) \o (IF n % 10 = 0 THEN "0" ELSE Digits[n % 10])

\* Python truthiness of an Optional[str]: neither None nor ""
Truthy(opt) == Len(opt) = 1 /\ opt[1] # << >>

\* ------------------------------------------------------------ Agent.chat
\* What the remote completion does with one request: it returns content, or
\* the client raises (transport or provider error).
ApiOk(text) == [ok |-> TRUE, content |-> text]
ApiRaise == [ok |-> FALSE, content |-> << >>]

\* What a call gives its caller: a value, or an exception that propagates.
Returned(value) == [raised |-> FALSE, value |-> value]
Raised == [raised |-> TRUE, value |-> None]

\* A gateway that lets the client's exception through.
chat_Reraise(outcome) == IF outcome.ok THEN Returned(Some(outcome.content)) ELSE Raised

\* Agent.chat: the content, or None when anything was raised (`except
\* Exception: ... return None`); nothing propagates to the caller.
chat(outcome) == IF outcome.ok THEN Returned(Some(outcome.content)) ELSE Returned(None)

\* None formatted into the text instead of replaced by "".
OrEmpty_NoneText(response) == IF Truthy(response) THEN response[1] ELSE <<"None">>

\* `agent.chat(messages) or ""`
OrEmpty(response) == IF Truthy(response) THEN response[1] ELSE << >>

\* ------------------------------------------------------ _parse_guidance
\* The pattern compiled without IGNORECASE.
PatternMatch_CaseSensitive(t) ==
    IF t # << >> /\ t[1] \in Sentinels
    THEN LET rest == LStrip(Tail(t))
         IN IF rest # << >> /\ rest[1] = ":"
            THEN <<TRUE, t[1], LStrip(Tail(rest))>>
            ELSE <<FALSE, "", << >> >>
    ELSE <<FALSE, "", << >> >>

\* re: ^(CONSENSUS_REACHED|CONTINUE_DISCUSSION|CONSENSUS_FAILED)\s*:\s*(.*)
\* with IGNORECASE | DOTALL, matched at the start of text.strip().
\* The result is <<matched, group(1), group(2)>>.
PatternMatch(t) ==
    IF t # << >> /\ UpperTok(t[1]) \in Sentinels
    THEN LET rest == LStrip(Tail(t))
         IN IF rest # << >> /\ rest[1] = ":"
            THEN <<TRUE, t[1], LStrip(Tail(rest))>>
            ELSE <<FALSE, "", << >> >>
    ELSE <<FALSE, "", << >> >>

\* An unparsed reply taken for agreement.
NoMatchGuidance_Reached == [status |-> "CONSENSUS_REACHED", content |-> Some(<< >>)]

\* `return "CONTINUE_DISCUSSION", None`
NoMatchGuidance == [status |-> "CONTINUE_DISCUSSION", content |-> None]

_parse_guidance(text) ==
    LET match == PatternMatch(Strip(text))
    IN IF match[1]
       THEN [status |-> UpperTok(match[2]), content |-> Some(Strip(match[3]))]
       ELSE NoMatchGuidance

\* --------------------------------------------------------------- Agent
\* Agent(model): a new object; no __eq__, so two agents are equal only when
\* they are the same object.
Agent(obj, model) == [obj |-> obj, model |-> model]

Message(role, content) == [role |-> role, content |-> content]

\* ------------------------------------------------------- Channel.__init__
\* `guiding_agent in participant_agents`
InParticipants(guiding_agent, participant_agents) ==
    \E i \in 1..Len(participant_agents) : participant_agents[i] = guiding_agent

Agents(guiding_agent, participant_agents) ==
    {guiding_agent} \cup {participant_agents[i] : i \in 1..Len(participant_agents)}

\* The constructor: a ValueError, or the new Channel.
ChannelInit(task, guiding_agent, participant_agents, max_rounds) ==
    IF InParticipants(guiding_agent, participant_agents)
    THEN [ok |-> FALSE,
          error |-> "Guiding agent must not be part of participant_agents list."]
    ELSE IF Len(participant_agents) = 0
    THEN [ok |-> FALSE, error |-> "At least one participant agent is required."]
    ELSE [ok |-> TRUE,
          channel |->
            [task |-> Strip(task),
             guiding_agent |-> guiding_agent,
             participants |-> participant_agents,
             max_rounds |-> max_rounds,
             rounds_executed |-> 0,
             stopped |-> FALSE,
             _history |-> [a \in Agents(guiding_agent, participant_agents) |-> << >>]]]

\* ------------------------------------------------------------ prompts
ParticipantSystemPrompt == <<"You are an expert AI assistant ...">>
GuidingSystemPrompt == <<"You are the moderator ...">>
FailureSystemPrompt == <<"The discussion round limit was reached ...">>

TaskMessage(task) == Message("system", <<"TASK", ":", " ">> \o task)

\* "Round {round_idx}: Provide your next answer or refinement. ..."
RoundInstruction(round_idx) ==
    Message("user", <<"Round", " ", Str(round_idx), ":", " ", "Provide ...">>)

\* dict order of self._history: the moderator, then the participants
HistoryOrder(ch) == <<ch.guiding_agent>> \o ch.participants

RECURSIVE OthersContent_First(_, _, _)
\* The first entry of every other agent's history instead of the last.
OthersContent_First(ch, agent, order) ==
    IF order = << >> THEN << >>
    ELSE LET other == Head(order)
             history == ch._history[other]
             rest == OthersContent_First(ch, agent, Tail(order))
         IN IF other = agent \/ history = << >> THEN rest
            ELSE <<history[1].content>> \o rest

RECURSIVE OthersContent(_, _, _)
\* history[-1]["content"] of every other agent with a non-empty history
OthersContent(ch, agent, order) ==
    IF order = << >> THEN << >>
    ELSE LET other == Head(order)
             history == ch._history[other]
             rest == OthersContent(ch, agent, Tail(order))
         IN IF other = agent \/ history = << >> THEN rest
            ELSE <<history[Len(history)].content>> \o rest

\* Channel._build_participant_prompt: the message list sent to `agent`.
_build_participant_prompt(ch, agent, round_idx) ==
    LET first == IF round_idx = 1
                 THEN <<Message("system", ParticipantSystemPrompt), TaskMessage(ch.task)>>
                 ELSE << >>
        others == OthersContent(ch, agent, HistoryOrder(ch))
        public == IF round_idx > 1 /\ others # << >>
                  THEN <<Message("system",
                           <<"Here are the most recent replies from your fellow agents:", "\n">>
                           \o Join(<<"\n", "---", "\n">>, others))>>
                  ELSE << >>
    IN first \o ch._history[agent] \o public \o <<RoundInstruction(round_idx)>>

RECURSIVE Combined(_, _)
\* [f"Agent{idx}: {content}" for idx, (_agent, content) in enumerate(msgs, 1)]
Combined(participant_msgs, idx) ==
    IF idx > Len(participant_msgs) THEN << >>
    ELSE << <<"Agent" \o Str(idx), ":", " ">> \o participant_msgs[idx][2] >>
         \o Combined(participant_msgs, idx + 1)

CombinedMessage(participant_msgs) ==
    Message("user", Join(<<"\n">>, Combined(participant_msgs, 1)))

\* The moderator's prompt in _request_guidance.
GuidancePrompt(ch, participant_msgs, round_idx) ==
    (IF round_idx = 1
     THEN <<Message("system", GuidingSystemPrompt), TaskMessage(ch.task)>>
     ELSE << >>)
    \o <<CombinedMessage(participant_msgs)>>

\* The moderator's prompt in _request_failure_summary.
FailurePrompt(participant_msgs) ==
    <<Message("system", FailureSystemPrompt), CombinedMessage(participant_msgs)>>

\* return value of _request_guidance once the channel is stopped
StoppedGuidance == <<"CONSENSUS_REACHED", ":", " ", "Channel", " ", "stopped.">>

\* ------------------------------------------------------------ Channel.run
\* A range of step 2.
RangeNext_Step2(round_idx) == round_idx + 2

\* The next value of `range(1, max_rounds + 1)` after round_idx (0 before the
\* first).
RangeNext(round_idx) == round_idx + 1

\* A range that stops one round early.
RoundRange_Short(max_rounds) == 1..(max_rounds - 1)

\* `for round_idx in range(1, self.config.max_rounds + 1)`
RoundRange(max_rounds) == 1..max_rounds

\* A counter kept one ahead of the loop index.
RoundsExecutedAt_OneAhead(round_idx) == round_idx + 1

\* `self.rounds_executed = round_idx`
RoundsExecutedAt(round_idx) == round_idx

\* The verdict compared with the wrong sentinel.
IsConsensus_WrongSentinel(status) == status = "CONSENSUS_FAILED"

\* `if status == "CONSENSUS_REACHED"`
IsConsensus(status) == status = "CONSENSUS_REACHED"

\* The round limit taken to be the first round.
IsLastRound_First(round_idx, max_rounds) == round_idx = 1

\* `if round_idx == self.config.max_rounds`
IsLastRound(round_idx, max_rounds) == round_idx = max_rounds

\* The summary returned as the moderator gave it.
EnsureFailedPrefix_Never(failure_summary) == failure_summary

\* `if not failure_summary.upper().startswith("CONSENSUS_FAILED"):
\*      failure_summary = f"CONSENSUS_FAILED: {failure_summary}"`
EnsureFailedPrefix(failure_summary) ==
    IF ~StartsWith(Upper(failure_summary), "CONSENSUS_FAILED")
    THEN <<"CONSENSUS_FAILED", ":", " ">> \o failure_summary
    ELSE failure_summary

NoConsensusNote == <<"No consensus reached within the configured discussion limit.">>

\* `content.strip() if content else "No consensus ..."` after the loop
AfterLoopAnswer(content) == IF Truthy(content) THEN Strip(content[1]) ELSE NoConsensusNote

\* ------------------------------------------------------------ workload
\* The requests the clients may send and the completions the remote models
\* may give: the instrumented environment of one run of the model.
ModelNames == <<"m1", "m2", "m3", "m4">>

ParticipantLists == {SubSeq(ModelNames, 1, n) : n \in 0..MaxParticipants}

Request(task, guiding_model, participant_models, max_rounds, chat_id) ==
    [task |-> task, guiding_model |-> guiding_model,
     participant_models |-> participant_models,
     max_rounds |-> max_rounds, chat_id |-> chat_id]

\* spawn_channel's keyword arguments; it validates none of them itself.
AllRequests ==
    {Request(<<"t1", " ">>, g, p, m, c) :
        g \in {"m0", "m1"}, p \in ParticipantLists, m \in 0..MaxRounds,
        c \in {None, Some(1)}}

ParticipantOutcomes == {ApiOk(<<"x">>), ApiRaise}

ModeratorOutcomes ==
    {ApiOk(<<"CONSENSUS_REACHED", ":", " ", "42">>),
     ApiOk(<<" ", "consensus_reached", " ", ":", "\n", "42", "\n", "x", " ">>),
     ApiOk(<<"CONTINUE_DISCUSSION", ":", " ", "x">>),
     ApiOk(<<"close">>),
     ApiRaise}

SummaryOutcomes ==
    {ApiOk(<<"CONSENSUS_FAILED", ":", " ", "x">>),
     ApiOk(<<"consensus_failed", ":", " ", "x">>),
     ApiOk(<<"CONSENSUS_FAILED", " ", "x">>),
     ApiOk(<<"x">>),
     ApiRaise}

\* One request; the participants' calls may fail, the moderator answers in
\* the protocol or fails when asked for the summary.
FaultyParticipants ==
    [requests |-> AllRequests, arrivals |-> 1,
     participant |-> ParticipantOutcomes,
     moderator |-> {ApiOk(<<"CONSENSUS_REACHED", ":", " ", "42">>),
                    ApiOk(<<"CONTINUE_DISCUSSION", ":", " ", "x">>)},
     summary |-> {ApiOk(<<"x">>), ApiRaise}]

\* One request; the participants answer, the moderator answers anything or
\* fails.
AnyVerdict ==
    [requests |-> AllRequests, arrivals |-> 1,
     participant |-> {ApiOk(<<"x">>)},
     moderator |-> ModeratorOutcomes,
     summary |-> SummaryOutcomes]

SoloWorkloads == {FaultyParticipants, AnyVerdict}

\* MaxRuns requests in flight together, for different tasks.
ConcurrentWorkload ==
    [requests |->
        {Request(<<t>>, "m0", <<"m1">>, m, IF t = "t1" THEN Some(1) ELSE None) :
            t \in {"t1", "t2"}, m \in 1..MaxRounds},
     arrivals |-> MaxRuns,
     participant |-> {ApiOk(<<"x">>)},
     moderator |-> {ApiOk(<<"CONSENSUS_REACHED", ":", " ", "42">>),
                    ApiOk(<<"CONTINUE_DISCUSSION", ":", " ", "x">>)},
     summary |-> {ApiOk(<<"x">>)}]

\* ------------------------------------------------------------- state
VARIABLES
    workload,         \* the environment, fixed at the start
    arrived,          \* the outcome of every spawn_channel call so far
    _channels,        \* consensus_service._channels: channel_id -> Channel
    _channel_status,  \* consensus_service._channel_status
    frames,           \* channel_id -> the locals of its _run_channel / run()
    calls,            \* channel_id -> the Agent.chat calls made for it
    loop_closed,      \* the event loop passed to _run_channel is closed
    loop_tasks,       \* coroutines handed to the loop, not yet run
    db_rows,          \* ConsensusChannel rows
    db_messages,      \* Message rows
    query,            \* the GET /channels/{channel_id} request being served
    _chat_busy,       \* chat_router._chat_busy: chat_id -> bool
    _chat_futures,    \* chat_router._chat_futures: chat_id -> the handler whose future it is
    handlers          \* the send_message / cancel_chat requests received so far

\* The state of chat_router's in-flight bookkeeping.
chat_state == <<_chat_busy, _chat_futures, handlers>>

vars == <<workload, arrived, _channels, _channel_status, frames, calls,
          loop_closed, loop_tasks, db_rows, db_messages, query, chat_state>>

ChannelIds == DOMAIN _channels

\* A creation that enters the round loop itself.
NewFrame_Started ==
    [pc |-> "loop", round_idx |-> 0, idx |-> 0, participant_msgs |-> << >>,
     guidance_raw |-> << >>, status |-> "", content |-> None, bound |-> FALSE,
     answer |-> << >>, exc |-> ""]

\* The locals of a worker that has not started yet.
NewFrame ==
    [pc |-> "queued", round_idx |-> 0, idx |-> 0, participant_msgs |-> << >>,
     guidance_raw |-> << >>, status |-> "", content |-> None, bound |-> FALSE,
     answer |-> << >>, exc |-> ""]

\* The row a new ConsensusChannel gets.
ConsensusChannelRow(request) ==
    [status |-> "pending", rounds_executed |-> None, answer |-> None,
     chat_id |-> request.chat_id, max_rounds |-> request.max_rounds]

\* No status request has come in.
NoQuery == [pc |-> "idle", channel_id |-> 0, read |-> 0, response |-> None]

\* The chat ids a request may name; only those in Chats exist.
ChatIds == 1..2

InitWith(w) ==
    /\ workload = w
    /\ arrived = << >>
    /\ _channels = << >>
    /\ _channel_status = << >>
    /\ frames = << >>
    /\ calls = << >>
    /\ loop_closed = FALSE
    /\ loop_tasks = {}
    /\ db_rows = << >>
    /\ db_messages = << >>
    /\ query = NoQuery
    /\ _chat_busy = [chat_id \in ChatIds |-> FALSE]
    /\ _chat_futures = [chat_id \in ChatIds |-> None]
    /\ handlers = << >>

Init == \E w \in SoloWorkloads : InitWith(w)

\* --------------------------------------------------------- spawn_channel
\* `[Agent(m) for m in participant_models]`
ParticipantAgents(participant_models) ==
    [i \in 1..Len(participant_models) |-> Agent(i, participant_models[i])]

\* What a creation call came to: the module whose tables hold the run, the
\* caller, and the run id that was returned (None when the call raised).
Arrival(request, module, caller, channel_id) ==
    [request |-> request, module |-> module, caller |-> caller,
     channel_id |-> channel_id, placeholder |-> "none"]

\* The module whose _channels and _channel_status hold run c:
\* consensus_service, routers.channel_router and main each keep their own
\* pair of dicts (and their own executor); run ids are uuid4 values, so the
\* key sets are disjoint and one table indexed by run id holds all three.
Owner(c) ==
    LET i == CHOOSE i \in 1..Len(arrived) : arrived[i].channel_id = Some(c)
    IN arrived[i].module

\* spawn_channel, on the event loop: build the agents and the Channel (which
\* may raise), add the row, register the channel and its pending status, and
\* hand _run_channel to the executor.
spawn_channel(request, caller) ==
    LET channel_id == Len(_channels) + 1
        made == ChannelInit(request.task, Agent(0, request.guiding_model),
                            ParticipantAgents(request.participant_models),
                            request.max_rounds)
    IN /\ ~loop_closed
       /\ Len(arrived) < workload.arrivals
       /\ IF made.ok
          THEN /\ _channels' = Append(_channels, made.channel)
               /\ _channel_status' =
                    Append(_channel_status,
                           [status |-> "pending", rounds_executed |-> 0,
                            answer |-> None, chat_id |-> request.chat_id,
                            error |-> None])
               /\ db_rows' = Append(db_rows, ConsensusChannelRow(request))
               /\ frames' = Append(frames, NewFrame)
               /\ calls' = Append(calls, << >>)
               /\ arrived' = Append(arrived, Arrival(request, "consensus_service", caller, Some(channel_id)))
          ELSE /\ arrived' = Append(arrived, Arrival(request, "consensus_service", caller, None))
               /\ UNCHANGED <<_channels, _channel_status, db_rows, frames, calls>>
       /\ UNCHANGED <<workload, query, loop_closed, loop_tasks, db_messages>>

SpawnChannel ==
    /\ \E request \in workload.requests : spawn_channel(request, "service")
    /\ UNCHANGED chat_state

\* ------------------------------------------------------- the round loop
\* Every worker handed the newest channel.
ChannelOf_Latest(channel_id) == Len(_channels)

\* `channel = _channels[channel_id]` in _run_channel
ChannelOf(channel_id) == channel_id

\* One Agent.chat call, as the instrumented gateway records it.
Call(kind, agent, round_idx, messages, stopped, outcome) ==
    [kind |-> kind, agent |-> agent, round_idx |-> round_idx,
     messages |-> messages, stopped |-> stopped, ok |-> outcome.ok,
     reply |-> outcome.content]

\* An exception leaves run(): _run_channel's `except` is next.
Raise(f, exc) == [f EXCEPT !.exc = exc, !.pc = "raised"]

\* The head of `for round_idx in range(...)`: the next round begins (and
\* _collect_participant_responses starts, empty-handed when stopped), or the
\* loop is over and run() falls through to its last return, where `content`
\* is unbound if no round ever ran.
ForRound(c) ==
    LET f == frames[c]
        ch == _channels[ChannelOf(c)]
        round_idx == RangeNext(f.round_idx)
    IN /\ f.pc = "loop"
       /\ IF round_idx \in RoundRange(ch.max_rounds)
          THEN /\ _channels' =
                    [_channels EXCEPT
                        ![ChannelOf(c)].rounds_executed = RoundsExecutedAt(round_idx)]
               /\ frames' =
                    [frames EXCEPT ![c] =
                        [f EXCEPT !.round_idx = round_idx,
                                  !.participant_msgs = << >>,
                                  !.idx = 1,
                                  !.pc = IF ch.stopped THEN "guidance" ELSE "collect"]]
          ELSE /\ frames' =
                    [frames EXCEPT ![c] =
                        IF f.bound
                        THEN [f EXCEPT !.answer = AfterLoopAnswer(f.content),
                                       !.pc = "returned"]
                        ELSE Raise(f, "UnboundLocalError: content")]
               /\ UNCHANGED _channels
       /\ UNCHANGED <<chat_state, workload, query, arrived, _channel_status, calls, loop_closed,
                      loop_tasks, db_rows, db_messages>>

\* The moderator is asked as soon as one participant has answered.
AfterParticipant_First(idx, participants) == "guidance"

\* `for agent in self.participants`: the next participant, or the return of
\* _collect_participant_responses once the list is exhausted.
AfterParticipant(idx, participants) ==
    IF idx = Len(participants) THEN "guidance" ELSE "collect"

\* The reply is recorded before the instruction it answers.
RecordRound_ReplyFirst(history, instruction, response) ==
    history \o <<Message("assistant", response), instruction>>

\* `self._history[agent].append(messages[-1])` in _build_participant_prompt,
\* then `self._history[agent].append({"role": "assistant", ...})` after the
\* call.
RecordRound(history, instruction, response) ==
    history \o <<instruction, Message("assistant", response)>>

\* One iteration of the loop in _collect_participant_responses: build the
\* prompt (which records the instruction), call the participant, record the
\* reply.
CollectParticipant(c) ==
    LET f == frames[c]
        ch == _channels[ChannelOf(c)]
    IN /\ f.pc = "collect"
       /\ \E outcome \in workload.participant :
            LET agent == ch.participants[f.idx]
                messages == _build_participant_prompt(ch, agent, f.round_idx)
                result == chat(outcome)
                response == OrEmpty(result.value)
            IN /\ IF result.raised
                  THEN /\ _channels' =
                            [_channels EXCEPT ![ChannelOf(c)]._history[agent] =
                                Append(@, messages[Len(messages)])]
                       /\ frames' = [frames EXCEPT ![c] = Raise(f, "APIError")]
                  ELSE /\ _channels' =
                            [_channels EXCEPT ![ChannelOf(c)]._history[agent] =
                                RecordRound(@, messages[Len(messages)], response)]
                       /\ frames' =
                            [frames EXCEPT ![c] =
                                [f EXCEPT !.participant_msgs = Append(@, <<agent, response>>),
                                          !.idx = f.idx + 1,
                                          !.pc = AfterParticipant(f.idx, ch.participants)]]
               /\ calls' =
                    [calls EXCEPT ![ChannelOf(c)] =
                        Append(@, Call("participant", agent, f.round_idx, messages,
                                       ch.stopped, outcome))]
       /\ UNCHANGED <<chat_state, workload, query, arrived, _channel_status, loop_closed, loop_tasks,
                      db_rows, db_messages>>

\* _request_guidance
RequestGuidance(c) ==
    LET f == frames[c]
        ch == _channels[ChannelOf(c)]
    IN /\ f.pc = "guidance"
       /\ IF ch.stopped
          THEN /\ frames' = [frames EXCEPT ![c] =
                                [f EXCEPT !.guidance_raw = StoppedGuidance, !.pc = "decide"]]
               /\ UNCHANGED <<_channels, calls>>
          ELSE \E outcome \in workload.moderator :
                 LET messages == GuidancePrompt(ch, f.participant_msgs, f.round_idx)
                     result == chat(outcome)
                     response == OrEmpty(result.value)
                 IN /\ IF result.raised
                       THEN /\ frames' = [frames EXCEPT ![c] = Raise(f, "APIError")]
                            /\ UNCHANGED _channels
                       ELSE /\ _channels' =
                                 [_channels EXCEPT
                                     ![ChannelOf(c)]._history[ch.guiding_agent] =
                                         Append(@, Message("assistant", response))]
                            /\ frames' =
                                 [frames EXCEPT ![c] =
                                     [f EXCEPT !.guidance_raw = response, !.pc = "decide"]]
                    /\ calls' =
                         [calls EXCEPT ![ChannelOf(c)] =
                             Append(@, Call("guidance", ch.guiding_agent, f.round_idx,
                                            messages, ch.stopped, outcome))]
       /\ UNCHANGED <<chat_state, workload, query, arrived, _channel_status, loop_closed, loop_tasks,
                      db_rows, db_messages>>

\* Only the first participant is told.
AppendGuidance_FirstOnly(ch, guidance_raw) ==
    [a \in DOMAIN ch._history |->
        IF ch.participants[1] = a
        THEN Append(ch._history[a], Message("assistant", guidance_raw))
        ELSE ch._history[a]]

\* `for agent in self.participants: self._history[agent].append(guidance)`
AppendGuidance(ch, guidance_raw) ==
    [a \in DOMAIN ch._history |->
        IF \E i \in 1..Len(ch.participants) : ch.participants[i] = a
        THEN Append(ch._history[a], Message("assistant", guidance_raw))
        ELSE ch._history[a]]

\* run() from the parse of the verdict to the end of the loop body.
Decide(c) ==
    LET f == frames[c]
        ch == _channels[ChannelOf(c)]
        parsed == _parse_guidance(f.guidance_raw)
        g == [f EXCEPT !.status = parsed.status, !.content = parsed.content,
                       !.bound = TRUE]
    IN /\ f.pc = "decide"
       /\ IF IsConsensus(parsed.status)
          THEN /\ _channels' = [_channels EXCEPT ![ChannelOf(c)].stopped = TRUE]
               /\ frames' =
                    [frames EXCEPT ![c] =
                        IF Len(parsed.content) = 1
                        THEN [g EXCEPT !.answer = Strip(parsed.content[1]),
                                       !.pc = "returned"]
                        ELSE Raise(g, "AttributeError: strip")]
          ELSE IF IsLastRound(f.round_idx, ch.max_rounds)
          THEN /\ _channels' = [_channels EXCEPT ![ChannelOf(c)].stopped = TRUE]
               /\ frames' = [frames EXCEPT ![c] = [g EXCEPT !.pc = "summary"]]
          ELSE /\ _channels' =
                    [_channels EXCEPT
                        ![ChannelOf(c)]._history = AppendGuidance(ch, f.guidance_raw)]
               /\ frames' = [frames EXCEPT ![c] = [g EXCEPT !.pc = "loop"]]
       /\ UNCHANGED <<chat_state, workload, query, arrived, _channel_status, calls, loop_closed,
                      loop_tasks, db_rows, db_messages>>

\* _request_failure_summary, and run()'s return of the prefixed summary.
RequestFailureSummary(c) ==
    LET f == frames[c]
        ch == _channels[ChannelOf(c)]
    IN /\ f.pc = "summary"
       /\ \E outcome \in workload.summary :
            LET messages == FailurePrompt(f.participant_msgs)
                result == chat(outcome)
                response == OrEmpty(result.value)
            IN /\ IF result.raised
                  THEN /\ frames' = [frames EXCEPT ![c] = Raise(f, "APIError")]
                       /\ UNCHANGED _channels
                  ELSE /\ _channels' =
                            [_channels EXCEPT
                                ![ChannelOf(c)]._history[ch.guiding_agent] =
                                    Append(@, Message("assistant", response))]
                       /\ frames' =
                            [frames EXCEPT ![c] =
                                [f EXCEPT !.answer = EnsureFailedPrefix(response),
                                          !.pc = "returned"]]
               /\ calls' =
                    [calls EXCEPT ![ChannelOf(c)] =
                        Append(@, Call("summary", ch.guiding_agent, f.round_idx,
                                       messages, ch.stopped, outcome))]
       /\ UNCHANGED <<chat_state, workload, query, arrived, _channel_status, loop_closed, loop_tasks,
                      db_rows, db_messages>>

\* --------------------------------------------------------- _run_channel
\* Jobs a pool thread is busy with.
Busy == {c \in ChannelIds : frames[c].pc \notin {"queued", "done"}}

\* A pool whose threads never come back from a job.
PoolHasRoom_NeverFreed(c) ==
    Cardinality({d \in ChannelIds : frames[d].pc # "queued" /\ Owner(d) = Owner(c)})
        < max_workers

\* ThreadPoolExecutor(max_workers=4) of the module that owns run c: a queued
\* job is taken when fewer than max_workers threads are busy.
PoolHasRoom(c) == Cardinality({d \in Busy : Owner(d) = Owner(c)}) < max_workers

\* A pool thread takes the job: status "running", then channel.run().
RunChannelStart(c) ==
    /\ frames[c].pc = "queued"
    /\ PoolHasRoom(c)
    /\ _channel_status' = [_channel_status EXCEPT ![c].status = "running"]
    /\ frames' = [frames EXCEPT ![c].pc = "loop"]
    /\ UNCHANGED <<chat_state, workload, query, arrived, _channels, calls, loop_closed, loop_tasks,
                   db_rows, db_messages>>

\* {agent.model: history for agent, history in channel._history.items()}:
\* a later agent of the same model name replaces an earlier one.
LogPayload(ch) ==
    LET order == HistoryOrder(ch)
        last(m) == CHOOSE i \in 1..Len(order) :
                      /\ order[i].model = m
                      /\ \A j \in (i + 1)..Len(order) : order[j].model # m
    IN [m \in {order[i].model : i \in 1..Len(order)} |-> ch._history[order[last(m)]]]

\* run() returned: the status record becomes "finished".
RunChannelFinished(c) ==
    LET ch == _channels[ChannelOf(c)]
    IN /\ frames[c].pc = "returned"
       /\ _channel_status' =
            [_channel_status EXCEPT ![c].status = "finished",
                                    ![c].rounds_executed = ch.rounds_executed,
                                    ![c].answer = Some(frames[c].answer)]
       /\ frames' = [frames EXCEPT ![c].pc =
                        IF Owner(c) = "main" THEN "done" ELSE "update_db"]
       /\ UNCHANGED <<chat_state, workload, query, arrived, _channels, calls, loop_closed, loop_tasks,
                      db_rows, db_messages>>

\* asyncio.run_coroutine_threadsafe(coro, loop): RuntimeError on a closed loop
UpdateDbTask(channel_id, status, rounds, answer, log) ==
    [fn |-> "_update_db", channel_id |-> channel_id, status |-> status,
     rounds |-> rounds, answer |-> answer, log |-> log]

PersistMessageTask(chat_id, channel_id, answer) ==
    [fn |-> "_persist_consensus_message", chat_id |-> chat_id,
     channel_id |-> channel_id, answer |-> answer]

\* channel_router's _persist_consensus_message(chat_id, answer); `run` only
\* tells the tasks of different runs apart.
RouterPersistMessageTask(chat_id, run, answer) ==
    [fn |-> "channel_router._persist_consensus_message", chat_id |-> chat_id,
     run |-> run, answer |-> answer]

\* Still inside the try: hand _update_db("finished") to the loop.
ScheduleUpdateDb(c) ==
    LET ch == _channels[ChannelOf(c)]
        f == frames[c]
    IN /\ f.pc = "update_db"
       /\ IF loop_closed
          THEN /\ frames' = [frames EXCEPT ![c].exc = "Event loop is closed",
                                           ![c].pc = "raised"]
               /\ UNCHANGED loop_tasks
          ELSE /\ loop_tasks' = loop_tasks \cup
                    {UpdateDbTask(c, "finished", Some(ch.rounds_executed),
                                  Some(f.answer), Some(LogPayload(ch)))}
               /\ frames' = [frames EXCEPT ![c].pc =
                                IF Len(_channel_status[c].chat_id) = 1
                                THEN "persist_message" ELSE "done"]
       /\ UNCHANGED <<chat_state, workload, query, arrived, _channels, _channel_status, calls,
                      loop_closed, db_rows, db_messages>>

\* Still inside the try: `if chat_id is not None`, hand the write-back to the
\* loop.
SchedulePersistMessage(c) ==
    LET f == frames[c]
    IN /\ f.pc = "persist_message"
       /\ IF loop_closed
          THEN /\ frames' = [frames EXCEPT ![c].exc = "Event loop is closed",
                                           ![c].pc = "raised"]
               /\ UNCHANGED loop_tasks
          ELSE /\ loop_tasks' = loop_tasks \cup
                    {IF Owner(c) = "channel_router"
                     THEN RouterPersistMessageTask(_channel_status[c].chat_id[1], c, f.answer)
                     ELSE PersistMessageTask(_channel_status[c].chat_id[1], c, f.answer)}
               /\ frames' = [frames EXCEPT ![c].pc = "done"]
       /\ UNCHANGED <<chat_state, workload, query, arrived, _channels, _channel_status, calls,
                      loop_closed, db_rows, db_messages>>

\* The message is dropped.
ErrorStatus_NoMessage(record, exc) == [record EXCEPT !.status = "error"]

\* _channel_status[channel_id].update({"status": "error", "error": str(exc)})
ErrorStatus(record, exc) == [record EXCEPT !.status = "error", !.error = Some(exc)]

\* `except Exception as exc`: the status record becomes "error"; scheduling
\* _update_db("error") on a closed loop raises out of _run_channel.
RunChannelExcept(c) ==
    LET f == frames[c]
    IN /\ f.pc = "raised"
       /\ _channel_status' =
            [_channel_status EXCEPT ![c] = ErrorStatus(_channel_status[c], f.exc)]
       /\ loop_tasks' =
            IF loop_closed \/ Owner(c) = "main" THEN loop_tasks
            ELSE loop_tasks \cup {UpdateDbTask(c, "error", Some(0), Some(<<f.exc>>), None)}
       /\ frames' = [frames EXCEPT ![c].pc = "done"]
       /\ UNCHANGED <<chat_state, workload, query, arrived, _channels, calls, loop_closed, db_rows,
                      db_messages>>

\* ----------------------------------------------------- on the event loop
\* _update_db: one UPDATE of the run's row.
UpdateDb(t) ==
    /\ ~loop_closed
    /\ t.fn = "_update_db"
    /\ db_rows' = [db_rows EXCEPT ![t.channel_id].status = t.status,
                                  ![t.channel_id].rounds_executed = t.rounds,
                                  ![t.channel_id].answer = t.answer]
    /\ loop_tasks' = loop_tasks \ {t}
    /\ UNCHANGED <<chat_state, workload, query, arrived, _channels, _channel_status, frames, calls,
                   loop_closed, db_messages>>

\* The fallback message of _persist_consensus_message.
AssistantMsg(chat_id, channel_id, answer) ==
    [chat_id |-> chat_id, role |-> "assistant", model |-> "consensus",
     generation_mode |-> "consensus", channel_id |-> Some(channel_id),
     content |-> answer]

\* The answer is always added as a new message.
_persist_consensus_message_Insert(messages, chat_id, channel_id, answer) ==
    Append(messages, AssistantMsg(chat_id, channel_id, answer))

\* _persist_consensus_message: the Message table after the call.  UPDATE ...
\* WHERE channel_id RETURNING; scalar_one_or_none() raises when more than one
\* row came back, and the session is left without a commit; a new message is
\* added when no row came back.
_persist_consensus_message(messages, chat_id, channel_id, answer) ==
    LET hit == {i \in 1..Len(messages) : messages[i].channel_id = Some(channel_id)}
    IN IF hit = {}
       THEN Append(messages, AssistantMsg(chat_id, channel_id, answer))
       ELSE IF Cardinality(hit) = 1
       THEN [i \in 1..Len(messages) |->
                IF i \in hit THEN [messages[i] EXCEPT !.content = answer]
                ELSE messages[i]]
       ELSE messages

\* The loop runs the coroutine _persist_consensus_message.
PersistConsensusMessage(t) ==
    /\ ~loop_closed
    /\ t.fn = "_persist_consensus_message"
    /\ db_messages' =
            _persist_consensus_message(db_messages, t.chat_id, t.channel_id, t.answer)
    /\ loop_tasks' = loop_tasks \ {t}
       /\ UNCHANGED <<chat_state, workload, query, arrived, _channels, _channel_status, frames, calls,
                      loop_closed, db_rows>>

\* The server shuts down: the loop is closed while pool threads live on.
LoopClose ==
    /\ ~loop_closed
    /\ loop_closed' = TRUE
    /\ UNCHANGED <<chat_state, workload, query, arrived, _channels, _channel_status, frames, calls,
                   loop_tasks, db_rows, db_messages>>

\* ------------------------------------------------------- specification
Next ==
    \/ SpawnChannel
    \/ \E c \in ChannelIds : RunChannelStart(c)
    \/ \E c \in ChannelIds : ForRound(c)
    \/ \E c \in ChannelIds : CollectParticipant(c)
    \/ \E c \in ChannelIds : RequestGuidance(c)
    \/ \E c \in ChannelIds : Decide(c)
    \/ \E c \in ChannelIds : RequestFailureSummary(c)
    \/ \E c \in ChannelIds : RunChannelFinished(c)
    \/ \E c \in ChannelIds : ScheduleUpdateDb(c)
    \/ \E c \in ChannelIds : SchedulePersistMessage(c)
    \/ \E c \in ChannelIds : RunChannelExcept(c)
    \/ \E t \in loop_tasks : UpdateDb(t)
    \/ \E t \in loop_tasks : PersistConsensusMessage(t)
    \/ LoopClose

Spec == Init /\ [][Next]_vars

\* What the pool thread of job c does next.
WorkerStep(c) ==
    /\ c \in ChannelIds
    /\ \/ RunChannelStart(c)
       \/ ForRound(c)
       \/ CollectParticipant(c)
       \/ RequestGuidance(c)
       \/ Decide(c)
       \/ RequestFailureSummary(c)
       \/ RunChannelFinished(c)
       \/ ScheduleUpdateDb(c)
       \/ SchedulePersistMessage(c)
       \/ RunChannelExcept(c)

\* The executor runs every submitted job, and a thread that can take a step
\* takes it (the completions are awaited with the client's timeout).
LiveSpec ==
    /\ InitWith(FaultyParticipants)
    /\ [][Next]_vars
    /\ \A c \in 1..MaxRuns : WF_vars(WorkerStep(c))

\* Runs created together, on a loop shared with all of them.
ConcurrentSpec == InitWith(ConcurrentWorkload) /\ [][Next]_vars

\* Two runs in flight together, each with or without a round to run: with
\* max_rounds 0 the loop body never runs and run() fails at its last return.
FailingRuns ==
    [requests |->
        {Request(<<t>>, "m0", <<"m1">>, m, IF t = "t1" THEN Some(1) ELSE None) :
            t \in {"t1", "t2"}, m \in 0..1},
     arrivals |-> MaxRuns,
     participant |-> {ApiOk(<<"x">>)},
     moderator |-> {ApiOk(<<"CONSENSUS_REACHED", ":", " ", "42">>),
                    ApiOk(<<"CONTINUE_DISCUSSION", ":", " ", "x">>)},
     summary |-> {ApiOk(<<"x">>)}]

FailureSpec == InitWith(FailingRuns) /\ [][Next]_vars

\* Replies of the moderator: optional leading whitespace, a first word (a
\* sentinel in upper, lower or mixed case, another word, or none), what
\* stands between it and the payload, and a payload of one or more lines.
Leads == {<< >>, <<" ">>, <<"\n", " ">>}

Heads ==
    {<< >>, <<"x">>, <<"close">>, <<":">>} \cup
    {<<w>> : w \in Sentinels \cup
                  {"consensus_reached", "continue_discussion", "consensus_failed",
                   "Consensus_Reached", "Continue_Discussion", "Consensus_Failed"}}

Separators ==
    {<< >>, <<":">>, <<" ", ":">>, <<"\n", " ", ":", " ">>, <<" ">>, <<"x", ":">>}

Payloads ==
    {<< >>, <<"x">>, <<"42", "\n", "x">>, <<"\n", "x", "\n", "x", " ">>,
     <<":", "x">>, <<" ">>}

Replies ==
    {a \o b \o c \o d : a \in Leads, b \in Heads, c \in Separators, d \in Payloads}

\* One run of one round whose moderator gives `text`.
Parsing(text) ==
    [requests |-> {Request(<<"t1">>, "m0", <<"m1">>, 1, Some(1))},
     arrivals |-> 1,
     participant |-> {ApiOk(<<"x">>)},
     moderator |-> {ApiOk(text)},
     summary |-> {ApiOk(<<"x">>)}]

ParseSpec == (\E text \in Replies : InitWith(Parsing(text))) /\ [][Next]_vars

\* One more run than the pool has threads; every Gateway call returns.
Crowd ==
    [requests |-> {Request(<<"t1">>, "m0", <<"m1">>, 1, None)},
     arrivals |-> max_workers + 1,
     participant |-> {ApiOk(<<"x">>)},
     moderator |-> {ApiOk(<<"CONSENSUS_REACHED", ":", " ", "42">>)},
     summary |-> {ApiOk(<<"x">>)}]

\* The steps that can happen with these runs (no failure summary is asked
\* for and no message thread is written to).
PoolNext ==
    \/ SpawnChannel
    \/ \E c \in ChannelIds : RunChannelStart(c)
    \/ \E c \in ChannelIds : ForRound(c)
    \/ \E c \in ChannelIds : CollectParticipant(c)
    \/ \E c \in ChannelIds : RequestGuidance(c)
    \/ \E c \in ChannelIds : Decide(c)
    \/ \E c \in ChannelIds : RunChannelFinished(c)
    \/ \E c \in ChannelIds : ScheduleUpdateDb(c)
    \/ \E c \in ChannelIds : RunChannelExcept(c)
    \/ \E t \in loop_tasks : UpdateDb(t)
    \/ LoopClose

\* Some pool thread can take a step: a job is being run, or a queued job
\* finds a free thread.
CanWork ==
    \E c \in ChannelIds :
        \/ frames[c].pc \notin {"queued", "done"}
        \/ frames[c].pc = "queued" /\ PoolHasRoom(c)

\* A pool thread took a step: the locals of some job changed.
WorkerMoved == \E c \in ChannelIds : frames'[c] # frames[c]

\* A busy pool worker eventually finishes: weak fairness of the pool
\* threads' steps taken together, with the enabling condition written out.
PoolSpec ==
    /\ InitWith(Crowd)
    /\ [][PoolNext]_vars
    /\ ([]<>~CanWork \/ []<><<WorkerMoved>>_vars)

\* ================================================== the HTTP handlers
\* Field(..., ge=1, le=20) of CreateChannelRequest and UserMessageCreate
max_rounds_le == 20

\* Field(..., ge=1, le=32) of ConsensusProfileBase
profile_max_rounds_le == 32

\* `msg_in.max_rounds or 8`
default_max_rounds == 8

\* The chats in the database.
Chats == {1}

\* chat.default_model of the chat
default_model == "m1"

\* CreateChannelRequest (channel_router and main): participant_models
\* min_length=1, max_rounds ge=1 le=20.
CreateChannelRequest(req) ==
    /\ Len(req.participant_models) >= 1
    /\ req.max_rounds >= 1
    /\ req.max_rounds <= max_rounds_le

\* The record a creation puts in _channel_status.
PendingStatus(chat_id) ==
    [status |-> "pending", rounds_executed |-> 0, answer |-> None,
     chat_id |-> chat_id, error |-> None]

\* main.create_channel adds no ConsensusChannel row: the place of the row
\* of such a run in db_rows.
NoRow ==
    [status |-> "(no row)", rounds_executed |-> None, answer |-> None,
     chat_id |-> None, max_rounds |-> 0]

\* A creation in module `module`: the Channel, its pending status record,
\* the row (or none) and the job for the module's executor.
Register(request, module, channel, row) ==
    /\ _channels' = Append(_channels, channel)
    /\ _channel_status' = Append(_channel_status, PendingStatus(request.chat_id))
    /\ db_rows' = Append(db_rows, row)
    /\ frames' = Append(frames, NewFrame)
    /\ calls' = Append(calls, << >>)
    /\ arrived' = Append(arrived, Arrival(request, module, "http", Some(Len(_channels) + 1)))

Rejected(request, module) ==
    /\ arrived' = Append(arrived, Arrival(request, module, "http", None))
    /\ UNCHANGED <<_channels, _channel_status, db_rows, frames, calls>>

\* POST /channels/ (channel_router.create_channel): the request model is
\* validated, the chat looked up, the Channel built and registered, the row
\* committed and the job handed to the executor as a background task.
channel_router_create_channel(req) ==
    LET made == ChannelInit(req.task, Agent(0, req.guiding_model),
                            ParticipantAgents(req.participant_models), req.max_rounds)
    IN /\ ~loop_closed
       /\ Len(arrived) < workload.arrivals
       /\ IF ~CreateChannelRequest(req) THEN Rejected(req, "channel_router")
          ELSE IF Len(req.chat_id) = 1 /\ req.chat_id[1] \notin Chats
          THEN Rejected(req, "channel_router")
          ELSE IF ~made.ok THEN Rejected(req, "channel_router")
          ELSE Register(req, "channel_router", made.channel, ConsensusChannelRow(req))
       /\ UNCHANGED <<chat_state, workload, query, loop_closed, loop_tasks, db_messages>>

RouterCreateChannel ==
    \E req \in workload.router_requests : channel_router_create_channel(req)

\* POST /channels (main.create_channel): the same without a chat and
\* without a row.
main_create_channel(req) ==
    LET made == ChannelInit(req.task, Agent(0, req.guiding_model),
                            ParticipantAgents(req.participant_models), req.max_rounds)
    IN /\ ~loop_closed
       /\ Len(arrived) < workload.arrivals
       /\ IF ~CreateChannelRequest(req) THEN Rejected(req, "main")
          ELSE IF ~made.ok THEN Rejected(req, "main")
          ELSE Register(req, "main", made.channel, NoRow)
       /\ UNCHANGED <<chat_state, workload, query, loop_closed, loop_tasks, db_messages>>

MainCreateChannel ==
    \E req \in workload.main_requests : main_create_channel(req)

\* UserMessageCreate: max_rounds is None or within ge=1, le=20.
UserMessageCreate(msg_in) ==
    Len(msg_in.max_rounds) = 1 =>
        (msg_in.max_rounds[1] >= 1 /\ msg_in.max_rounds[1] <= max_rounds_le)

\* ConsensusProfileBase, validated when the profile was stored: max_rounds
\* ge=1 le=32, participant_models any list.
ConsensusProfileBase(prof) ==
    /\ prof.max_rounds >= 1
    /\ prof.max_rounds <= profile_max_rounds_le

\* send_message, "Resolve consensus parameters": the profile's values, or
\* the message's with the chat's default model and 8 rounds for what is
\* missing or empty.
ConsensusParameters(msg_in) ==
    IF Len(msg_in.profile) = 1
    THEN Request(msg_in.content, msg_in.profile[1].guiding_model,
                 msg_in.profile[1].participant_models,
                 msg_in.profile[1].max_rounds, Some(msg_in.chat_id))
    ELSE Request(msg_in.content,
                 IF Len(msg_in.guiding_model) = 1 THEN msg_in.guiding_model[1]
                 ELSE default_model,
                 IF Len(msg_in.participant_models) = 1 /\ msg_in.participant_models[1] # << >>
                 THEN msg_in.participant_models[1] ELSE <<default_model>>,
                 IF Len(msg_in.max_rounds) = 1 THEN msg_in.max_rounds[1]
                 ELSE default_max_rounds,
                 Some(msg_in.chat_id))

\* send_message on its consensus path, up to the return of spawn_channel.
send_message(msg_in) ==
    /\ UserMessageCreate(msg_in)
    /\ msg_in.chat_id \in Chats
    /\ Len(msg_in.profile) = 1 => ConsensusProfileBase(msg_in.profile[1])
    /\ spawn_channel(ConsensusParameters(msg_in), "send_message")

SendMessage ==
    /\ \E msg_in \in workload.messages : send_message(msg_in)
    /\ UNCHANGED chat_state

\* The placeholder assistant message of a consensus reply.
Placeholder(chat_id, channel_id) ==
    [chat_id |-> chat_id, role |-> "assistant", model |-> "consensus",
     generation_mode |-> "consensus", channel_id |-> Some(channel_id),
     content |-> << >>]

\* send_message after spawn_channel returned: the placeholder is added and
\* committed.
AddPlaceholder(i) ==
    /\ ~loop_closed
    /\ arrived[i].caller = "send_message"
    /\ Len(arrived[i].channel_id) = 1
    /\ arrived[i].placeholder = "none"
    /\ db_messages' = Append(db_messages,
                             Placeholder(arrived[i].request.chat_id[1], arrived[i].channel_id[1]))
    /\ arrived' = [arrived EXCEPT ![i].placeholder = "added"]
    /\ UNCHANGED <<workload, query, _channels, _channel_status, frames, calls,
                   loop_closed, loop_tasks, db_rows>>

\* channel_router._persist_consensus_message: always a new message.
RouterPersistConsensusMessage(t) ==
    /\ ~loop_closed
    /\ t.fn = "channel_router._persist_consensus_message"
    /\ db_messages' = Append(db_messages,
                             [chat_id |-> t.chat_id, role |-> "assistant",
                              model |-> "consensus", generation_mode |-> "direct",
                              channel_id |-> None, content |-> t.answer])
    /\ loop_tasks' = loop_tasks \ {t}
    /\ UNCHANGED <<chat_state, workload, query, arrived, _channels, _channel_status, frames,
                   calls, loop_closed, db_rows>>

\* ------------------------------------------------- GET /channels/{id}
\* `_channel_status.get(channel_id)` in channel_router: its own dict.
RouterCache(channel_id) ==
    IF channel_id \in ChannelIds /\ Owner(channel_id) = "channel_router"
    THEN Some(_channel_status[channel_id]) ELSE None

\* `await session.get(ConsensusChannel, channel_id)`
SessionGet(channel_id) ==
    IF channel_id \in ChannelIds /\ db_rows[channel_id] # NoRow
    THEN Some(db_rows[channel_id]) ELSE None

ChannelStatusResponse(status, rounds_executed, answer, error) ==
    [code |-> 200, status |-> status, rounds_executed |-> rounds_executed,
     answer |-> answer, error |-> error]

\* HTTPException(status_code=404, detail="Channel not found")
NotFound ==
    [code |-> 404, status |-> "Channel not found", rounds_executed |-> 0,
     answer |-> None, error |-> None]

\* `cache is not None and cache.get("status") != "pending"`
CacheIsAuthoritative(cache) == Len(cache) = 1 /\ cache[1].status # "pending"

\* The handler up to its branch: the cached record is taken, or the row is
\* awaited.
GetChannelStatus(channel_id) ==
    /\ ~loop_closed
    /\ workload.queries
    /\ query.pc = "idle"
    /\ query' = [pc |-> IF CacheIsAuthoritative(RouterCache(channel_id))
                        THEN "read_cache" ELSE "await_row",
                 channel_id |-> channel_id, read |-> 0,
                 response |-> Some(ChannelStatusResponse("", 0, None, None))]
    /\ UNCHANGED <<chat_state, workload, arrived, _channels, _channel_status, frames, calls,
                   loop_closed, loop_tasks, db_rows, db_messages>>

\* The arguments of the response, read from the cached record one after the
\* other: cache["status"], cache.get("rounds_executed", 0),
\* cache.get("answer"), cache.get("error").  The worker thread may update
\* the record between any two of the reads.
QueryReadCache ==
    LET cache == _channel_status[query.channel_id]
        r == query.response[1]
    IN /\ query.pc = "read_cache"
       /\ query' = [query EXCEPT
                       !.read = query.read + 1,
                       !.pc = IF query.read = 3 THEN "responded" ELSE "read_cache",
                       !.response =
                          Some(CASE query.read = 0 -> [r EXCEPT !.status = cache.status]
                                 [] query.read = 1 -> [r EXCEPT !.rounds_executed = cache.rounds_executed]
                                 [] query.read = 2 -> [r EXCEPT !.answer = cache.answer]
                                 [] OTHER -> [r EXCEPT !.error = cache.error])]
       /\ UNCHANGED <<chat_state, workload, arrived, _channels, _channel_status, frames, calls,
                      loop_closed, loop_tasks, db_rows, db_messages>>

\* `row.rounds_executed or 0`
OrZero(rounds_executed) == IF Len(rounds_executed) = 1 THEN rounds_executed[1] ELSE 0

\* The response built from the row, or 404.
QueryReadRow ==
    LET row == SessionGet(query.channel_id)
    IN /\ query.pc = "await_row"
       /\ ~loop_closed
       /\ query' = [query EXCEPT
                       !.pc = "responded",
                       !.response =
                          IF row = None THEN Some(NotFound)
                          ELSE Some(ChannelStatusResponse(
                                  row[1].status, OrZero(row[1].rounds_executed),
                                  row[1].answer,
                                  IF row[1].status = "error" THEN row[1].answer ELSE None))]
       /\ UNCHANGED <<chat_state, workload, arrived, _channels, _channel_status, frames, calls,
                      loop_closed, loop_tasks, db_rows, db_messages>>

\* The run ids a client may ask for: those returned to it, and one that no
\* creation ever returned.
UnknownId == 0
Askable ==
    {UnknownId} \cup
    {arrived[i].channel_id[1] :
        i \in {j \in 1..Len(arrived) : Len(arrived[j].channel_id) = 1}}

\* ----------------------------------------------- the service as a whole
UserMessage(content, guiding_model, participant_models, max_rounds, profile) ==
    [content |-> content, chat_id |-> 1, guiding_model |-> guiding_model,
     participant_models |-> participant_models, max_rounds |-> max_rounds,
     profile |-> profile]

Profile(guiding_model, participant_models, max_rounds) ==
    [guiding_model |-> guiding_model, participant_models |-> participant_models,
     max_rounds |-> max_rounds]

\* Round budgets around the limits of the request models.
Budgets == {0, 1, MaxRounds, max_rounds_le + 1}

\* One creation on any path, polled once; the models answer in the protocol.
Polled ==
    [requests |-> {Request(<<"t1">>, "m0", <<"m1">>, MaxRounds, None)},
     router_requests |->
        {Request(<<"t1">>, g, p, m, c) :
            g \in {"m0", "m1"}, p \in {<< >>, <<"m1">>}, m \in Budgets,
            c \in {None, Some(1), Some(2)}},
     main_requests |->
        {Request(<<"t1">>, g, p, m, None) :
            g \in {"m0", "m1"}, p \in {<< >>, <<"m1">>}, m \in Budgets},
     messages |->
        {UserMessage(<<"t1">>, g, p, m, None) :
            g \in {None, Some("m0")}, p \in {None, Some(<< >>), Some(<<"m1">>)},
            m \in {None, Some(0), Some(MaxRounds), Some(max_rounds_le + 1)}}
        \cup
        {UserMessage(<<"t1">>, None, None, None, Some(Profile(g, p, m))) :
            g \in {"m0", "m1"}, p \in {<< >>, <<"m1">>},
            m \in {1, MaxRounds, max_rounds_le + 1, profile_max_rounds_le + 1}},
     arrivals |-> 1,
     queries |-> TRUE,
     participant |-> {ApiOk(<<"x">>)},
     moderator |-> {ApiOk(<<"CONSENSUS_REACHED", ":", " ", "42">>),
                    ApiOk(<<"CONTINUE_DISCUSSION", ":", " ", "x">>)},
     summary |-> {ApiOk(<<"x">>)}]

\* Two creations, on any two paths, not polled.
Paired ==
    [requests |-> {Request(<<"t1">>, "m0", <<"m1">>, 1, None)},
     router_requests |-> {Request(<<"t2">>, "m0", <<"m1">>, 1, Some(1))},
     main_requests |-> {Request(<<"t3">>, "m0", <<"m1">>, 1, None)},
     messages |-> {UserMessage(<<"t4">>, Some("m0"), Some(<<"m1">>), Some(1), None)},
     arrivals |-> 2,
     queries |-> FALSE,
     participant |-> {ApiOk(<<"x">>)},
     moderator |-> {ApiOk(<<"CONSENSUS_REACHED", ":", " ", "42">>),
                    ApiOk(<<"CONTINUE_DISCUSSION", ":", " ", "x">>)},
     summary |-> {ApiOk(<<"x">>)}]

ApiInit == \E w \in {Polled, Paired} : InitWith(w)

ApiNext ==
    \/ Next
    \/ RouterCreateChannel
    \/ MainCreateChannel
    \/ SendMessage
    \/ \E i \in 1..Len(arrived) : AddPlaceholder(i) /\ UNCHANGED chat_state
    \/ \E t \in loop_tasks : RouterPersistConsensusMessage(t)
    \/ \E channel_id \in Askable : GetChannelStatus(channel_id)
    \/ QueryReadCache
    \/ QueryReadRow

\* All creation paths, the workers and the status endpoint.
ApiSpec == ApiInit /\ [][ApiNext]_vars

\* ------------------------------------- POST /chats/{id}/messages, /cancel
\* How many chat requests are followed.
MaxHandlers == 3

\* A UserMessageCreate body sent to chat_id.
ChatMessage(chat_id, use_consensus) ==
    [content |-> <<"t1">>, chat_id |-> chat_id, use_consensus |-> use_consensus,
     guiding_model |-> Some("m0"), participant_models |-> Some(<<"m1">>),
     max_rounds |-> Some(1), profile |-> None]

\* A request as the router follows it: where its coroutine is suspended, the
\* state of the executor future it created, and the response once sent.
Handler(kind, chat_id, msg_in, pc, response) ==
    [kind |-> kind, chat_id |-> chat_id, msg_in |-> msg_in, pc |-> pc,
     future |-> "none", arrival |-> 0, content |-> << >>, response |-> response]

HandlerIds == 1..Len(handlers)

\* `if _chat_busy.get(str(chat_id), False): raise HTTPException(409)`
Admitted(busy, chat_id) == ~busy[chat_id]

\* send_message from its entry to its first await: 409 while the flag is
\* set, else the flag is set and the chat is looked up.
SendArrive ==
    \E msg_in \in workload.sends :
        /\ Len(handlers) < MaxHandlers
        /\ IF Admitted(_chat_busy, msg_in.chat_id)
           THEN /\ _chat_busy' = [_chat_busy EXCEPT ![msg_in.chat_id] = TRUE]
                /\ handlers' = Append(handlers,
                       Handler("send", msg_in.chat_id, Some(msg_in), "get_chat", 0))
           ELSE /\ handlers' = Append(handlers,
                       Handler("send", msg_in.chat_id, Some(msg_in), "done", 409))
                /\ UNCHANGED _chat_busy
        /\ UNCHANGED <<_chat_futures, workload, arrived, _channels, _channel_status,
                       frames, calls, loop_closed, loop_tasks, db_rows, db_messages,
                       query>>

\* `chat = await session.get(Chat, chat_id)`: 404 through the finally, or
\* the user message is added and flushed.
SendGetChat(h) ==
    /\ handlers[h].kind = "send"
    /\ handlers[h].pc = "get_chat"
    /\ IF handlers[h].chat_id \in Chats
       THEN /\ handlers' = [handlers EXCEPT ![h].pc = "history"]
            /\ UNCHANGED _chat_busy
       ELSE /\ handlers' = [handlers EXCEPT ![h].pc = "done", ![h].response = 404]
            /\ _chat_busy' = [_chat_busy EXCEPT ![handlers[h].chat_id] = FALSE]
    /\ UNCHANGED <<_chat_futures, workload, arrived, _channels, _channel_status, frames,
                   calls, loop_closed, loop_tasks, db_rows, db_messages, query>>

\* `if msg_in.use_consensus or msg_in.profile_id is not None`
ConsensusPath(msg_in) == msg_in.use_consensus \/ Len(msg_in.profile) = 1

\* After the history was selected, on the direct path: the completion is
\* handed to the executor and its future registered under the chat.
SendDirect(h) ==
    /\ handlers[h].kind = "send"
    /\ handlers[h].pc = "history"
    /\ ~ConsensusPath(handlers[h].msg_in[1])
    /\ handlers' = [handlers EXCEPT ![h].pc = "future", ![h].future = "pending"]
    /\ _chat_futures' = [_chat_futures EXCEPT ![handlers[h].chat_id] = Some(h)]
    /\ UNCHANGED <<_chat_busy, workload, arrived, _channels, _channel_status, frames,
                   calls, loop_closed, loop_tasks, db_rows, db_messages, query>>

\* After the history was selected, on the consensus path: spawn_channel is
\* awaited; what it raises leaves through the finally.
SendConsensus(h) ==
    /\ handlers[h].kind = "send"
    /\ handlers[h].pc = "history"
    /\ ConsensusPath(handlers[h].msg_in[1])
    /\ send_message(handlers[h].msg_in[1])
    /\ IF Len(arrived'[Len(arrived')].channel_id) = 1
       THEN /\ handlers' = [handlers EXCEPT ![h].pc = "placeholder",
                                            ![h].arrival = Len(arrived')]
            /\ UNCHANGED _chat_busy
       ELSE /\ handlers' = [handlers EXCEPT ![h].pc = "done", ![h].response = 500]
            /\ _chat_busy' = [_chat_busy EXCEPT ![handlers[h].chat_id] = FALSE]
    /\ UNCHANGED _chat_futures

\* The placeholder is added, flushed and committed.
SendPlaceholder(h) ==
    /\ handlers[h].kind = "send"
    /\ handlers[h].pc = "placeholder"
    /\ AddPlaceholder(handlers[h].arrival)
    /\ handlers' = [handlers EXCEPT ![h].pc = "refetch"]
    /\ UNCHANGED <<_chat_busy, _chat_futures>>

\* `assistant_content = await future` returns: the inner finally pops the
\* chat's entry, whoever registered it.
SendFutureDone(h) ==
    /\ handlers[h].kind = "send"
    /\ handlers[h].pc = "future"
    /\ handlers[h].future = "pending"
    /\ \E outcome \in workload.participant :
          handlers' = [handlers EXCEPT ![h].pc = "commit", ![h].future = "done",
                                       ![h].content = OrEmpty(chat(outcome).value)]
    /\ _chat_futures' = [_chat_futures EXCEPT ![handlers[h].chat_id] = None]
    /\ UNCHANGED <<_chat_busy, workload, arrived, _channels, _channel_status, frames,
                   calls, loop_closed, loop_tasks, db_rows, db_messages, query>>

\* `except asyncio.CancelledError: raise HTTPException(499)`, through both
\* finally blocks.
SendCancelled(h) ==
    /\ handlers[h].kind = "send"
    /\ handlers[h].pc = "future"
    /\ handlers[h].future = "cancelled"
    /\ handlers' = [handlers EXCEPT ![h].pc = "done", ![h].response = 499]
    /\ _chat_futures' = [_chat_futures EXCEPT ![handlers[h].chat_id] = None]
    /\ _chat_busy' = [_chat_busy EXCEPT ![handlers[h].chat_id] = FALSE]
    /\ UNCHANGED <<workload, arrived, _channels, _channel_status, frames, calls,
                   loop_closed, loop_tasks, db_rows, db_messages, query>>

\* The assistant reply of the direct path.
DirectReply(chat_id, content) ==
    [chat_id |-> chat_id, role |-> "assistant", model |-> default_model,
     generation_mode |-> "direct", channel_id |-> None, content |-> content]

\* "4) Persist assistant reply": the reply is added and committed.
SendCommit(h) ==
    /\ handlers[h].kind = "send"
    /\ handlers[h].pc = "commit"
    /\ db_messages' = Append(db_messages,
                             DirectReply(handlers[h].chat_id, handlers[h].content))
    /\ handlers' = [handlers EXCEPT ![h].pc = "refresh"]
    /\ UNCHANGED <<_chat_busy, _chat_futures, workload, arrived, _channels,
                   _channel_status, frames, calls, loop_closed, loop_tasks, db_rows,
                   query>>

\* The last await is over and the message is returned:
\* `finally: _chat_busy[str(chat_id)] = False`.
SendReturn(h) ==
    /\ handlers[h].kind = "send"
    /\ handlers[h].pc \in {"refresh", "refetch"}
    /\ handlers' = [handlers EXCEPT ![h].pc = "done", ![h].response = 201]
    /\ _chat_busy' = [_chat_busy EXCEPT ![handlers[h].chat_id] = FALSE]
    /\ UNCHANGED <<_chat_futures, workload, arrived, _channels, _channel_status, frames,
                   calls, loop_closed, loop_tasks, db_rows, db_messages, query>>

\* cancel_chat up to `await session.get(Chat, chat_id)`.
CancelArrive ==
    \E chat_id \in workload.cancels :
        /\ Len(handlers) < MaxHandlers
        /\ handlers' = Append(handlers, Handler("cancel", chat_id, None, "get_chat", 0))
        /\ UNCHANGED <<_chat_busy, _chat_futures, workload, arrived, _channels,
                       _channel_status, frames, calls, loop_closed, loop_tasks,
                       db_rows, db_messages, query>>

\* cancel_chat after the lookup: 404, or the registered future is cancelled
\* when it is not done and the flag is cleared.
CancelApply(h) ==
    LET chat_id == handlers[h].chat_id
        fut == _chat_futures[chat_id]
    IN /\ handlers[h].kind = "cancel"
       /\ handlers[h].pc = "get_chat"
       /\ IF chat_id \in Chats
          THEN /\ handlers' =
                    IF Len(fut) = 1 /\ handlers[fut[1]].future = "pending"
                    THEN [handlers EXCEPT ![h].pc = "done", ![h].response = 202,
                                          ![fut[1]].future = "cancelled"]
                    ELSE [handlers EXCEPT ![h].pc = "done", ![h].response = 202]
               /\ _chat_busy' = [_chat_busy EXCEPT ![chat_id] = FALSE]
          ELSE /\ handlers' = [handlers EXCEPT ![h].pc = "done", ![h].response = 404]
               /\ UNCHANGED _chat_busy
       /\ UNCHANGED <<_chat_futures, workload, arrived, _channels, _channel_status,
                      frames, calls, loop_closed, loop_tasks, db_rows, db_messages,
                      query>>

\* Direct and consensus messages and cancellations, for a chat that exists
\* and one that does not.
Chatting ==
    [requests |-> {},
     sends |-> {ChatMessage(chat_id, use_consensus) :
                   chat_id \in ChatIds, use_consensus \in BOOLEAN},
     cancels |-> ChatIds,
     arrivals |-> 2,
     participant |-> {ApiOk(<<"x">>), ApiRaise},
     moderator |-> {ApiOk(<<"CONSENSUS_REACHED", ":", " ", "42">>)},
     summary |-> {ApiOk(<<"x">>)}]

ChatNext ==
    \/ SendArrive
    \/ \E h \in HandlerIds : SendGetChat(h)
    \/ \E h \in HandlerIds : SendDirect(h)
    \/ \E h \in HandlerIds : SendConsensus(h)
    \/ \E h \in HandlerIds : SendPlaceholder(h)
    \/ \E h \in HandlerIds : SendFutureDone(h)
    \/ \E h \in HandlerIds : SendCancelled(h)
    \/ \E h \in HandlerIds : SendCommit(h)
    \/ \E h \in HandlerIds : SendReturn(h)
    \/ CancelArrive
    \/ \E h \in HandlerIds : CancelApply(h)

\* The chat endpoints alone, requests interleaved at their awaits.
ChatSpec == InitWith(Chatting) /\ [][ChatNext]_vars

\* ============================================================== claims
IsGuidanceCall(x) == x.kind = "guidance"
IsSummaryCall(x) == x.kind = "summary"
IsParticipantCall(x) == x.kind = "participant"

GuidanceCalls(c) == SelectSeq(calls[c], IsGuidanceCall)
SummaryCalls(c) == SelectSeq(calls[c], IsSummaryCall)

\* run() is over for worker c: it returned or raised.
RunOver(c) == frames[c].pc \in {"returned", "update_db", "persist_message", "raised", "done"}

ModeratorHistory(c) == _channels[c]._history[_channels[c].guiding_agent]

\* C1: with max_rounds >= 1, rounds_executed of the Channel (and the copy
\* of it in the status record) never exceeds max_rounds, in any state of a
\* run.
C1_RoundsWithinBudget ==
    \A c \in ChannelIds :
        _channels[c].max_rounds >= 1 =>
            /\ _channels[c].rounds_executed <= _channels[c].max_rounds
            /\ _channel_status[c].rounds_executed <= _channels[c].max_rounds

\* A run in its last allowed round, the moderator about to be asked.
C1_Witness ==
    \E c \in ChannelIds :
        /\ _channels[c].max_rounds = MaxRounds
        /\ _channels[c].rounds_executed = MaxRounds
        /\ frames[c].pc = "guidance"

\* C2: when the moderator's reply of round n parses as CONSENSUS_REACHED,
\* run() is over once the verdict is handled: the channel is stopped, the
\* answer is the trimmed payload and rounds_executed is n (the number of
\* verdicts asked for); a first reply "CONSENSUS_REACHED: 42" gives the
\* answer "42" after one round, also in the finished status record.
C2_ConsensusEndsRun ==
    \A c \in ChannelIds :
        LET f == frames[c]
            verdict == _parse_guidance(f.guidance_raw)
            first42 == /\ Len(GuidanceCalls(c)) = 1
                       /\ GuidanceCalls(c)[1].ok
                       /\ GuidanceCalls(c)[1].reply = <<"CONSENSUS_REACHED", ":", " ", "42">>
        IN /\ (Len(GuidanceCalls(c)) > 0 /\ f.pc # "decide"
               /\ verdict.status = "CONSENSUS_REACHED") =>
                 /\ RunOver(c)
                 /\ _channels[c].stopped
                 /\ f.answer = Strip(verdict.content[1])
                 /\ _channels[c].rounds_executed = Len(GuidanceCalls(c))
                 /\ SummaryCalls(c) = << >>
           /\ (first42 /\ f.pc # "decide") =>
                 /\ RunOver(c)
                 /\ f.answer = <<"42">>
                 /\ _channels[c].rounds_executed = 1
                 /\ _channel_status[c].status = "finished" =>
                       /\ _channel_status[c].answer = Some(<<"42">>)
                       /\ _channel_status[c].rounds_executed = 1

\* A run of two allowed rounds finished after round 1 on "CONSENSUS_REACHED: 42".
C2_Witness ==
    \E c \in ChannelIds :
        /\ _channels[c].max_rounds = 2
        /\ Len(GuidanceCalls(c)) = 1
        /\ GuidanceCalls(c)[1].reply = <<"CONSENSUS_REACHED", ":", " ", "42">>
        /\ _channel_status[c].status = "finished"
        /\ _channel_status[c].answer = Some(<<"42">>)
        /\ _channel_status[c].rounds_executed = 1

NoVerdictIsConsensus(c) ==
    \A k \in 1..Len(GuidanceCalls(c)) :
        _parse_guidance(GuidanceCalls(c)[k].reply).status # "CONSENSUS_REACHED"

\* The round limit was hit without consensus and the last verdict is handled.
LimitWithoutConsensus(c) ==
    /\ _channels[c].max_rounds >= 1
    /\ Len(GuidanceCalls(c)) = _channels[c].max_rounds
    /\ NoVerdictIsConsensus(c)
    /\ frames[c].pc # "decide"

\* The reply matches the verdict grammar.
Recognized(text) == PatternMatch(Strip(text))[1]

\* The reply is an explicit "CONTINUE_DISCUSSION: ..." in any letter case.
ExplicitContinue(text) ==
    /\ Recognized(text)
    /\ UpperTok(PatternMatch(Strip(text))[2]) = "CONTINUE_DISCUSSION"

\* A run the spec calls valid: the moderator's model is no participant's
\* and at least one round is allowed.
ValidRun(c) ==
    /\ _channels[c].max_rounds >= 1
    /\ \A i \in 1..Len(_channels[c].participants) :
         _channels[c].participants[i].model # _channels[c].guiding_agent.model

\* The moderator answered every round with an explicit CONTINUE_DISCUSSION.
AllContinue(c) ==
    \A k \in 1..Len(GuidanceCalls(c)) :
        GuidanceCalls(c)[k].ok /\ ExplicitContinue(GuidanceCalls(c)[k].reply)

\* C3 as stated: when the moderator replied CONTINUE_DISCUSSION in every
\* round up to max_rounds, the failure summary is requested, and the answer
\* of run() starts with "CONSENSUS_FAILED:" whatever the moderator replied to
\* that request.
C3_AlwaysFailedColon ==
    \A c \in ChannelIds :
        (ValidRun(c) /\ AllContinue(c) /\ LimitWithoutConsensus(c)) =>
            /\ frames[c].pc = "summary" \/ Len(SummaryCalls(c)) = 1
            /\ SummaryCalls(c) # << >> =>
                  /\ Len(frames[c].answer) >= 2
                  /\ frames[c].answer[1] = "CONSENSUS_FAILED"
                  /\ frames[c].answer[2] = ":"

\* C3 (amended): after the round limit the failure summary is requested
\* once, and the answer of run() starts with the sentinel CONSENSUS_FAILED
\* compared without regard to letter case: a reply that does not start so is
\* returned behind "CONSENSUS_FAILED: ", a reply that does is returned
\* as it is.
C3_FailureSummaryPrefixed ==
    \A c \in ChannelIds :
        /\ LimitWithoutConsensus(c) => frames[c].pc = "summary" \/ Len(SummaryCalls(c)) = 1
        /\ SummaryCalls(c) # << >> =>
              LET reply == SummaryCalls(c)[1].reply
                  answer == frames[c].answer
              IN /\ Len(SummaryCalls(c)) = 1
                 /\ LimitWithoutConsensus(c)
                 /\ StartsWith(Upper(answer), "CONSENSUS_FAILED")
                 /\ IF StartsWith(Upper(reply), "CONSENSUS_FAILED")
                    THEN answer = reply
                    ELSE answer = <<"CONSENSUS_FAILED", ":", " ">> \o reply

\* Two rounds of CONTINUE_DISCUSSION, then a summary without the prefix.
C3_Witness ==
    \E c \in ChannelIds :
        /\ _channels[c].max_rounds = 2
        /\ Len(GuidanceCalls(c)) = 2
        /\ \A k \in 1..2 : GuidanceCalls(c)[k].reply = <<"CONTINUE_DISCUSSION", ":", " ", "x">>
        /\ Len(SummaryCalls(c)) = 1
        /\ SummaryCalls(c)[1].ok
        /\ SummaryCalls(c)[1].reply = <<"x">>
        /\ _channel_status[c].status = "finished"
        /\ _channel_status[c].answer = Some(<<"CONSENSUS_FAILED", ":", " ", "x">>)

\* What run() does with a verdict to continue: at the round limit it stops
\* and goes on to the failure summary; before it, every participant's
\* history gets the raw reply and the loop goes to the next round.
ContinueFlow(c) ==
    LET f == frames[c]
        ch == _channels[c]
    IN IF f.round_idx = ch.max_rounds
       THEN /\ frames'[c].pc = "summary"
            /\ _channels'[c].stopped
            /\ _channels'[c]._history = ch._history
       ELSE /\ frames'[c].pc = "loop"
            /\ ~_channels'[c].stopped
            /\ \A a \in DOMAIN ch._history :
                 _channels'[c]._history[a] =
                    IF a = ch.guiding_agent THEN ch._history[a]
                    ELSE Append(ch._history[a], Message("assistant", f.guidance_raw))

\* C4: a reply with none of the three sentinel prefixes drives run() exactly
\* as an explicit CONTINUE_DISCUSSION does (next round, or the failure
\* summary at max_rounds), and the raw reply is the last entry of the
\* moderator's history when the verdict is handled.
C4_UnrecognizedIsContinue ==
    [][\A c \in ChannelIds :
         (/\ frames[c].pc = "decide"
          /\ frames'[c] # frames[c]
          /\ GuidanceCalls(c) # << >>
          /\ ~Recognized(frames[c].guidance_raw) \/ ExplicitContinue(frames[c].guidance_raw))
         => /\ ContinueFlow(c)
            /\ ModeratorHistory(c)[Len(ModeratorHistory(c))] =
                  Message("assistant", frames[c].guidance_raw)]_vars

\* "close" was the verdict of round 1: round 2 has begun with it in the
\* histories.
C4_Witness ==
    \E c \in ChannelIds :
        /\ frames[c].guidance_raw = <<"close">>
        /\ frames[c].pc = "collect"
        /\ frames[c].round_idx = 2
        /\ ModeratorHistory(c)[Len(ModeratorHistory(c))] = Message("assistant", <<"close">>)
        /\ \A i \in 1..Len(_channels[c].participants) :
             LET h == _channels[c]._history[_channels[c].participants[i]]
             IN h[Len(h)] = Message("assistant", <<"close">>)

\* The request names its moderator's model among its participants' models.
ModeratorAmongParticipants(request) ==
    \E k \in 1..Len(request.participant_models) :
        request.participant_models[k] = request.guiding_model

\* C5 as stated: a run whose moderator model id equals one of the
\* participant model ids is rejected at creation: no channel is registered
\* for it (and so no agent is ever called for it).
C5_SameModelRejected ==
    \A i \in 1..Len(arrived) :
        (ModeratorAmongParticipants(arrived[i].request) /\ arrived[i].request.max_rounds >= 1)
            => arrived[i].channel_id = None

LastCall(c) == calls[c][Len(calls[c])]

IsRound(r, x) == x.round_idx = r

\* The contributions of round r as the gateway saw them: a failed call
\* counts as empty text.
RoundContributions(c, r) ==
    LET IsOfRound(x) == IsParticipantCall(x) /\ IsRound(r, x)
        made == SelectSeq(calls[c], IsOfRound)
    IN [i \in 1..Len(made) |-> <<made[i].agent, IF made[i].ok THEN made[i].reply ELSE << >> >>]

\* Participant i's call of round r failed.
ParticipantFailed(c) ==
    \E k \in 1..Len(calls[c]) : IsParticipantCall(calls[c][k]) /\ ~calls[c][k].ok

Terminal(c) == _channel_status[c].status \in {"finished", "error"}

\* A participant's failed call of round r left "" as its reply of round r in
\* its own history, and the moderator of round r was sent "" as its
\* contribution.
FailureRecordedEmpty(c) ==
    \A k \in 1..Len(calls[c]) :
        LET x == calls[c][k]
            history == _channels[c]._history[x.agent]
            asked == SelectSeq(GuidanceCalls(c), LAMBDA g : IsRound(x.round_idx, g))
        IN (IsParticipantCall(x) /\ ~x.ok) =>
             /\ frames[c].exc # "APIError"
             /\ Len(history) >= 3 * (x.round_idx - 1) + 2
             /\ history[3 * (x.round_idx - 1) + 1] = RoundInstruction(x.round_idx)
             /\ history[3 * (x.round_idx - 1) + 2] = Message("assistant", << >>)
             /\ \A j \in 1..Len(asked) :
                  LET m == asked[j].messages
                  IN m[Len(m)] = CombinedMessage(RoundContributions(c, x.round_idx))

\* C7: a participant's failed call in round k does not abort the run: the
\* contribution is recorded as empty text in the participant's history and
\* in the moderator's input of round k, and the run goes on to a terminal
\* status.
C7_ParticipantFailureTolerated ==
    /\ [](\A c \in ChannelIds : FailureRecordedEmpty(c))
    /\ \A c \in 1..MaxRuns :
         (c \in ChannelIds /\ ParticipantFailed(c)) ~> (c \in ChannelIds /\ Terminal(c))

\* Participant 1 failed in round 1 and participant 2 in round 2; the run
\* finished after the failure summary.
C7_Witness ==
    \E c \in ChannelIds :
        /\ ValidRun(c)
        /\ Len(_channels[c].participants) = 2
        /\ \E k \in 1..Len(calls[c]) :
             /\ IsParticipantCall(calls[c][k]) /\ ~calls[c][k].ok
             /\ calls[c][k].round_idx = 1
             /\ calls[c][k].agent = _channels[c].participants[1]
        /\ \E k \in 1..Len(calls[c]) :
             /\ IsParticipantCall(calls[c][k]) /\ ~calls[c][k].ok
             /\ calls[c][k].round_idx = 2
             /\ calls[c][k].agent = _channels[c].participants[2]
        /\ _channels[c]._history[_channels[c].participants[1]][2] = Message("assistant", << >>)
        /\ Len(GuidanceCalls(c)) = 2
        /\ _channel_status[c].status = "finished"
        /\ _channel_status[c].rounds_executed = 2

ConsensusVerdicts(c) ==
    {k \in 1..Len(GuidanceCalls(c)) :
        _parse_guidance(GuidanceCalls(c)[k].reply).status = "CONSENSUS_REACHED"}

\* The rounds a run takes alone with the verdicts run c got: up to the first
\* consensus, or all of max_rounds.
AloneRounds(c) ==
    IF ConsensusVerdicts(c) = {} THEN _channels[c].max_rounds
    ELSE CHOOSE k \in ConsensusVerdicts(c) : \A j \in ConsensusVerdicts(c) : k <= j

\* The answer a run gets alone from the replies run c got.
AloneAnswer(c) ==
    IF ConsensusVerdicts(c) = {}
    THEN EnsureFailedPrefix(SummaryCalls(c)[1].reply)
    ELSE Strip(_parse_guidance(GuidanceCalls(c)[AloneRounds(c)].reply).content[1])

\* Run c was created for the i-th request that arrived.
RequestOf(c) ==
    LET i == CHOOSE i \in 1..Len(arrived) : arrived[i].channel_id = Some(c)
    IN arrived[i].request

\* run() of c is over with exactly what it produces alone: the rounds, the
\* calls, the message counts, the answer; every prompt of round 1 carried
\* its own task and every call went to one of its own agents.
AsAlone(c) ==
    LET ch == _channels[c]
        R == AloneRounds(c)
    IN /\ ch.task = Strip(RequestOf(c).task)
       /\ ch.max_rounds = RequestOf(c).max_rounds
       /\ ch.rounds_executed = R
       /\ frames[c].round_idx = R
       /\ Len(GuidanceCalls(c)) = R
       /\ Len(SelectSeq(calls[c], IsParticipantCall)) = R * Len(ch.participants)
       /\ Len(SummaryCalls(c)) = (IF ConsensusVerdicts(c) = {} THEN 1 ELSE 0)
       /\ \A i \in 1..Len(ch.participants) :
            Len(ch._history[ch.participants[i]]) = 3 * R - 1
       /\ Len(ch._history[ch.guiding_agent]) = R + Len(SummaryCalls(c))
       /\ frames[c].answer = AloneAnswer(c)
       /\ \A k \in 1..Len(calls[c]) :
            /\ calls[c][k].agent \in DOMAIN ch._history
            /\ (calls[c][k].round_idx = 1 /\ ~IsSummaryCall(calls[c][k]))
               => calls[c][k].messages[2] = TaskMessage(ch.task)

\* C9: runs executing together on the pool keep their histories, round
\* counters and status records apart: when run() of a run is over, its
\* rounds_executed, its message counts and its answer are those the run
\* produces alone from the replies it got, and its finished status record
\* holds its own rounds and answer.
C9_RunsIsolated ==
    \A c \in ChannelIds :
        /\ (RunOver(c) /\ frames[c].exc = "") => AsAlone(c)
        /\ frames[c].pc = "queued" =>
              /\ _channels[c].rounds_executed = 0
              /\ \A a \in DOMAIN _channels[c]._history : _channels[c]._history[a] = << >>
              /\ _channel_status[c].status = "pending"
        /\ _channel_status[c].status = "finished" =>
              /\ _channel_status[c].rounds_executed = AloneRounds(c)
              /\ _channel_status[c].answer = Some(AloneAnswer(c))
        /\ _channel_status[c].chat_id = RequestOf(c).chat_id

\* Two runs for different tasks whose run() ended while the other's worker
\* was still busy: one after two rounds and the failure summary, one after a
\* consensus in round 1.
C9_Witness ==
    \E c, d \in ChannelIds :
        /\ _channels[c].task # _channels[d].task
        /\ frames[c].pc = "returned"
        /\ frames[d].pc = "returned"
        /\ _channels[c].rounds_executed = 2
        /\ Len(SummaryCalls(c)) = 1
        /\ _channels[d].max_rounds = 2
        /\ _channels[d].rounds_executed = 1
        /\ frames[d].answer = <<"42">>

\* C10 as stated: once the status record of a run is "finished" or "error",
\* its status never changes again.
C10_TerminalOnce ==
    [][\A c \in ChannelIds :
         _channel_status[c].status \in {"finished", "error"} =>
            _channel_status'[c].status = _channel_status[c].status]_vars

\* The run has a status record in memory that is past "pending".
MemoryRecordPastPending(channel_id) ==
    /\ channel_id \in ChannelIds
    /\ _channel_status[channel_id].status # "pending"

\* C11 as stated: a status query answers from the in-memory record whenever
\* the run has one whose status is past pending, and from the row of the
\* Status Repository in every other case.
C11_MemoryRecordPreferred ==
    [][(query.pc = "idle" /\ query'.pc # "idle") =>
          query'.pc = (IF MemoryRecordPastPending(query'.channel_id)
                       THEN "read_cache" ELSE "await_row")]_vars

\* C12 as stated: a status query for a run id that was never created is
\* answered "not found" (404), and a query for a run that exists and is
\* still pending is not: it is answered with the status "pending".
C12_NotFoundOnlyForUnknown ==
    query.pc = "responded" =>
        LET id == query.channel_id
            response == query.response[1]
        IN /\ id \notin ChannelIds => response = NotFound
           /\ (id \in ChannelIds /\ ValidRun(id) /\ _channel_status[id].status = "pending") =>
                 (response.code = 200 /\ response.status = "pending")

\* The run request the spec calls invalid: no participant, the moderator's
\* model among the participants' models, or a round budget outside [1,20].
InvalidRunRequest(request) ==
    \/ Len(request.participant_models) = 0
    \/ ModeratorAmongParticipants(request)
    \/ request.max_rounds < 1
    \/ request.max_rounds > max_rounds_le

\* C13 as stated: on every creation path (POST /channels/, POST /channels,
\* and spawn_channel called for a chat message with the message's or a
\* profile's parameters) an invalid run request is rejected at creation: no
\* run id is returned, nothing is registered or scheduled for it.
C13_InvalidRequestRejected ==
    \A i \in 1..Len(arrived) :
        (arrived[i].caller # "service" /\ InvalidRunRequest(arrived[i].request))
            => arrived[i].channel_id = None

\* C14: a creation returns the new run id without waiting for the round
\* loop.  At the return the id is new, its status record exists (pending or
\* later), its job has not entered the round loop and no agent was called
\* for it; the creating step calls no agent of any run.  Agents are called
\* only from _run_channel on a pool thread, after it set the status to
\* "running".
C14_CreationDoesNotBlock ==
    [][/\ (Len(arrived') = Len(arrived) + 1 /\ Len(arrived'[Len(arrived')].channel_id) = 1) =>
            LET id == arrived'[Len(arrived')].channel_id[1]
            IN /\ id \notin ChannelIds
               /\ id \in DOMAIN _channel_status'
               /\ _channel_status'[id].status \in {"pending", "running", "finished", "error"}
               /\ frames'[id].pc = "queued"
               /\ calls'[id] = << >>
               /\ \A c \in ChannelIds :
                    /\ calls'[c] = calls[c]
                    /\ frames'[c] = frames[c]
                    /\ _channel_status'[c] = _channel_status[c]
       /\ \A c \in ChannelIds :
            calls'[c] # calls[c] =>
               /\ arrived' = arrived
               /\ frames[c].pc \in {"collect", "guidance", "summary"}
               /\ _channel_status[c].status = "running"
      ]_vars

\* A chat message's run id was returned: the run is pending, its job queued,
\* no agent called, the placeholder not yet written.
C14_Witness ==
    \E i \in 1..Len(arrived) :
        /\ arrived[i].caller = "send_message"
        /\ Len(arrived[i].channel_id) = 1
        /\ arrived[i].placeholder = "none"
        /\ _channel_status[arrived[i].channel_id[1]].status = "pending"
        /\ frames[arrived[i].channel_id[1]].pc = "queued"
        /\ calls[arrived[i].channel_id[1]] = << >>

\* Everything the program holds about run d: its status record, its Channel,
\* the locals of its job and the agent calls made for it.
RunState(d) ==
    [status |-> _channel_status[d], channel |-> _channels[ChannelOf(d)],
     frame |-> frames[d], calls |-> calls[d]]

RunStateNext(d) ==
    [status |-> _channel_status'[d], channel |-> _channels'[ChannelOf(d)],
     frame |-> frames'[d], calls |-> calls'[d]]

\* C15: an unexpected failure while running the round loop of one run
\* surfaces as that run's terminal status "error" with the exception's
\* message in the status record, and leaves every other concurrent run as it
\* was.  The step that raises touches no other run; the step of the `except`
\* clause sets status "error" and error = the message and touches no other
\* run; an error record never changes again; the failed job gives its pool
\* thread back and no other job is dropped.
C15_FailureIsolated ==
    [][\A c \in ChannelIds :
         /\ (frames[c].pc # "raised" /\ frames'[c].pc = "raised") =>
                \A d \in ChannelIds \ {c} : RunStateNext(d) = RunState(d)
         /\ (frames[c].pc = "raised" /\ frames'[c].pc # "raised") =>
                /\ _channel_status'[c].status = "error"
                /\ _channel_status'[c].error = Some(frames[c].exc)
                /\ frames'[c].pc = "done"
                /\ Busy' = Busy \ {c}
                /\ \A d \in ChannelIds \ {c} : RunStateNext(d) = RunState(d)
         /\ _channel_status[c].status = "error" =>
                _channel_status'[c] = _channel_status[c]
      ]_vars

\* One run failed inside run() and is in the error state with the message,
\* while the other run, created before the failure was handled, has called
\* the Gateway and is still in its round.
C15_Witness ==
    \E c, d \in ChannelIds :
        /\ c # d
        /\ _channel_status[c].status = "error"
        /\ _channel_status[c].error = Some("UnboundLocalError: content")
        /\ frames[c].pc = "done"
        /\ _channel_status[d].status = "running"
        /\ frames[d].pc = "guidance"
        /\ Len(calls[d]) = 1

\* The position of the colon when s is a sentinel in any letter case, then
\* whitespace only, then a colon; 0 otherwise.
ColonAt(s) ==
    IF s # << >> /\ \E w \in Sentinels : UpperTok(s[1]) = w
                 /\ \E k \in 2..Len(s) : s[k] = ":" /\ \A j \in 2..(k - 1) : s[j] \in WS
    THEN CHOOSE k \in 2..Len(s) : s[k] = ":" /\ \A j \in 2..(k - 1) : s[j] \in WS
    ELSE 0

\* C16: verdict parsing is case-insensitive and tolerant of multi-line
\* payloads.  For a reply whose trimmed text starts with one of the three
\* sentinels in any letter case, followed by optional whitespace and a colon,
\* the parsed status is the upper-cased sentinel and the payload is all the
\* text after the colon, line breaks included, stripped of surrounding
\* whitespace; every other reply parses to (CONTINUE_DISCUSSION, absent).
C16_ParseVerdict ==
    [][\A c \in ChannelIds :
         (frames[c].pc = "decide" /\ frames'[c].pc # "decide") =>
            LET s == Strip(frames[c].guidance_raw)
                k == ColonAt(s)
            IN IF k > 0
               THEN /\ frames'[c].status = UpperTok(s[1])
                    /\ frames'[c].status \in Sentinels
                    /\ frames'[c].content = Some(Strip(SubSeq(s, k + 1, Len(s))))
               ELSE /\ frames'[c].status = "CONTINUE_DISCUSSION"
                    /\ frames'[c].content = None
      ]_vars

\* " Consensus_Reached :\n x\nx " was parsed: status CONSENSUS_REACHED and the
\* two-line payload "x\nx".
C16_Witness ==
    \E c \in ChannelIds :
        /\ frames[c].pc = "returned"
        /\ frames[c].guidance_raw =
              <<" ", "Consensus_Reached", "\n", " ", ":", " ", "\n", "x", "\n", "x", " ">>
        /\ frames[c].status = "CONSENSUS_REACHED"
        /\ frames[c].content = Some(<<"x", "\n", "x">>)
        /\ frames[c].answer = <<"x", "\n", "x">>

\* The call that stands at place j of a run's call log when the rounds go one
\* after the other: in each round the participants in list order, then the
\* moderator.
ExpectedCall(ch, j) ==
    LET k == Len(ch.participants)
        round_idx == ((j - 1) \div (k + 1)) + 1
        i == ((j - 1) % (k + 1)) + 1
    IN IF i <= k
       THEN [kind |-> "participant", agent |-> ch.participants[i], round_idx |-> round_idx]
       ELSE [kind |-> "guidance", agent |-> ch.guiding_agent, round_idx |-> round_idx]

\* C17: the Gateway calls of one run are totally ordered.  In each round
\* every participant is called once, in the order of the participant list;
\* the moderator call of round n comes after all participant calls of round
\* n have returned; no call of round n+1 is issued before the verdict of
\* round n has been parsed (and found not to be a consensus).  The failure
\* summary, if asked for, is the last call and follows a moderator call.
C17_CallsOrdered ==
    [][\A c \in ChannelIds :
         LET ch == _channels[c]
             log == calls'[c]
             n == Len(log)
         IN calls'[c] # calls[c] =>
              /\ n = Len(calls[c]) + 1
              /\ SubSeq(log, 1, n - 1) = calls[c]
              /\ \A j \in 1..(n - 1) : ~IsSummaryCall(log[j])
              /\ IF IsSummaryCall(log[n])
                 THEN /\ n > 1
                      /\ IsGuidanceCall(log[n - 1])
                      /\ log[n].round_idx = log[n - 1].round_idx
                      /\ log[n].agent = ch.guiding_agent
                 ELSE /\ log[n].kind = ExpectedCall(ch, n).kind
                      /\ log[n].agent = ExpectedCall(ch, n).agent
                      /\ log[n].round_idx = ExpectedCall(ch, n).round_idx
              /\ (n > 1 /\ IsGuidanceCall(log[n - 1])) =>
                    LET guidance_raw == OrEmpty(chat([ok |-> log[n - 1].ok,
                                                      content |-> log[n - 1].reply]).value)
                        verdict == _parse_guidance(guidance_raw)
                    IN /\ frames[c].bound
                       /\ frames[c].status = verdict.status
                       /\ frames[c].content = verdict.content
                       /\ ~IsConsensus(verdict.status)
      ]_vars

\* Two participants, two rounds: both were called in list order before the
\* moderator in round 1, and again in round 2 after the verdict to continue.
C17_Witness ==
    \E c \in ChannelIds :
        /\ Len(_channels[c].participants) = 2
        /\ Len(calls[c]) = 6
        /\ calls[c][1].agent = _channels[c].participants[1]
        /\ calls[c][2].agent = _channels[c].participants[2]
        /\ IsGuidanceCall(calls[c][3]) /\ calls[c][3].round_idx = 1
        /\ IsParticipantCall(calls[c][4]) /\ calls[c][4].round_idx = 2
        /\ IsParticipantCall(calls[c][5]) /\ calls[c][5].round_idx = 2
        /\ IsGuidanceCall(calls[c][6]) /\ calls[c][6].round_idx = 2

\* messages = system messages, then the history, then the message.
HistoryPlus(messages, history, message) ==
    LET n == Len(messages)
        h == Len(history)
    IN /\ n >= h + 1
       /\ messages[n] = message
       /\ SubSeq(messages, n - h, n - 1) = history
       /\ \A j \in 1..(n - h - 1) : messages[j].role = "system"

\* C18 as stated: in every round the moderator is called with its own
\* accumulated history plus the new user message of the concatenated
\* participant replies, and the raw reply is then appended to the
\* moderator's history.
C18_ModeratorSeesHistory ==
    [][\A c \in ChannelIds :
         (calls'[c] # calls[c] /\ IsGuidanceCall(calls'[c][Len(calls'[c])])) =>
            LET call == calls'[c][Len(calls'[c])]
                raw == OrEmpty(chat([ok |-> call.ok, content |-> call.reply]).value)
            IN /\ HistoryPlus(call.messages, ModeratorHistory(c),
                              CombinedMessage(frames[c].participant_msgs))
               /\ _channels'[c]._history[_channels[c].guiding_agent] =
                     Append(ModeratorHistory(c), Message("assistant", raw))
      ]_vars

\* What the caller of agent.chat took as the reply of a logged call.
RawReply(call) == OrEmpty(chat([ok |-> call.ok, content |-> call.reply]).value)

\* The logged call of `kind` to `agent` in round r of run c.
CallOf(c, kind, agent, r) ==
    CHOOSE x \in {calls[c][j] : j \in 1..Len(calls[c])} :
        x.kind = kind /\ x.agent = agent /\ x.round_idx = r

\* C19: in the continue case (verdict not CONSENSUS_REACHED and n <
\* max_rounds) the moderator's raw reply is appended as one assistant-role
\* message to every participant's history (and to nothing else) before round
\* n+1 starts, so that the prompt of each participant in round n+1 holds, in
\* this order, its instruction of round n, its own reply of round n and the
\* moderator's reply of round n, verbatim.
C19_GuidanceReachesParticipants ==
    /\ [][\A c \in ChannelIds :
            (frames[c].pc = "decide" /\ frames'[c].pc = "loop") =>
               LET ch == _channels[c]
                   raw == RawReply(calls[c][Len(calls[c])])
               IN /\ IsGuidanceCall(calls[c][Len(calls[c])])
                  /\ ~IsConsensus(frames'[c].status)
                  /\ frames[c].round_idx < ch.max_rounds
                  /\ \A i \in 1..Len(ch.participants) :
                        _channels'[c]._history[ch.participants[i]] =
                            Append(ch._history[ch.participants[i]],
                                   Message("assistant", raw))
                  /\ _channels'[c]._history[ch.guiding_agent] =
                        ch._history[ch.guiding_agent]
         ]_vars
    /\ [](\A c \in ChannelIds :
            \A j \in 1..Len(calls[c]) :
               LET call == calls[c][j]
                   n == call.round_idx - 1
               IN (IsParticipantCall(call) /\ n >= 1) =>
                     \E i \in 3..(Len(call.messages) - 1) :
                        /\ call.messages[i - 2] = RoundInstruction(n)
                        /\ call.messages[i - 1] =
                              Message("assistant",
                                      RawReply(CallOf(c, "participant", call.agent, n)))
                        /\ call.messages[i] =
                              Message("assistant",
                                      RawReply(CallOf(c, "guidance",
                                                      _channels[c].guiding_agent, n))))

\* Two participants were both called in round 2 with the moderator's
\* "CONTINUE_DISCUSSION: x" of round 1 in their prompts.
C19_Witness ==
    \E c \in ChannelIds :
        /\ Len(_channels[c].participants) = 2
        /\ Len(calls[c]) >= 5
        /\ \A j \in 4..5 :
              /\ IsParticipantCall(calls[c][j])
              /\ calls[c][j].round_idx = 2
              /\ \E i \in 1..Len(calls[c][j].messages) :
                    calls[c][j].messages[i] =
                        Message("assistant", <<"CONTINUE_DISCUSSION", ":", " ", "x">>)

\* The Message rows that carry run id channel_id.
RowsOf(messages, channel_id) ==
    {i \in 1..Len(messages) : messages[i].channel_id = Some(channel_id)}

\* C20: when the final answer is written back to a message thread and a
\* placeholder message already exists for the run id, the placeholder's
\* content is updated in place and no additional message is inserted: the
\* thread keeps its length, the placeholder keeps its place and every field
\* but content, every other message is as it was; writing the same answer a
\* second time leaves the thread unchanged.
C20_PlaceholderUpdatedInPlace ==
    [][\A t \in loop_tasks :
         (/\ t.fn = "_persist_consensus_message"
          /\ t \notin loop_tasks'
          /\ RowsOf(db_messages, t.channel_id) # {}) =>
            /\ Len(db_messages') = Len(db_messages)
            /\ \A i \in 1..Len(db_messages) :
                  IF i \in RowsOf(db_messages, t.channel_id)
                  THEN db_messages'[i] = [db_messages[i] EXCEPT !.content = t.answer]
                  ELSE db_messages'[i] = db_messages[i]
            /\ _persist_consensus_message(db_messages', t.chat_id, t.channel_id, t.answer)
                  = db_messages'
      ]_vars

\* The write-back found the placeholder of a chat message's run: the run is
\* done, its task has run, and the thread holds one message for the run id,
\* the placeholder, now with the answer.
C20_Witness ==
    \E i \in 1..Len(arrived) :
        /\ arrived[i].caller = "send_message"
        /\ arrived[i].placeholder = "added"
        /\ LET c == arrived[i].channel_id[1]
           IN /\ frames[c].pc = "done"
              /\ _channel_status[c].status = "finished"
              /\ \A t \in loop_tasks : t.fn # "_persist_consensus_message"
              /\ Cardinality(RowsOf(db_messages, c)) = 1
              /\ \A j \in RowsOf(db_messages, c) :
                    /\ db_messages[j].content = frames[c].answer
                    /\ db_messages[j].content # << >>
                    /\ db_messages[j] =
                          [Placeholder(arrived[i].request.chat_id[1], c)
                              EXCEPT !.content = frames[c].answer]

\* The round loop of run c is over and no terminal branch was taken: neither
\* the consensus branch nor the round-limit branch, which both set `stopped`.
LoopFellThrough(c) == RunOver(c) /\ ~_channels[c].stopped

\* C21 as stated: if the round loop exits without any explicit terminal
\* branch being hit, run() returns the last parsed payload if present, else
\* the literal fallback string; for every max_rounds the constructor accepts,
\* a budget whose loop body never executes included.
C21_FallbackReturned ==
    \A c \in ChannelIds :
        LoopFellThrough(c) =>
            /\ frames[c].exc # "UnboundLocalError: content"
            /\ frames[c].answer = AfterLoopAnswer(frames[c].content)

\* The _update_db coroutines of run c that the loop has not run yet.
PendingUpdates(c) == {t \in loop_tasks : t.fn = "_update_db" /\ t.channel_id = c}

\* C22 as stated: on termination the final status is written to both the
\* in-memory status table and the Status Repository.  A repository write is
\* scheduled only with the status the cache already holds, and once the job
\* of a run that reached finished or error is over and no write of it is
\* outstanding, the repository row holds the status of the cache (nothing
\* can change either of them afterwards, so "eventually the same" is "the
\* same now").
C22_FinalStatusInBoth ==
    \A c \in ChannelIds :
      ValidRun(c) =>
        /\ \A t \in PendingUpdates(c) : _channel_status[c].status = t.status
        /\ (/\ _channel_status[c].status \in {"finished", "error"}
            /\ frames[c].pc = "done"
            /\ PendingUpdates(c) = {}) =>
                db_rows[c].status = _channel_status[c].status

\* C23: in every round the final user-role instruction built for a
\* participant is recorded in that participant's own history before its
\* reply.  The step that calls a participant adds to the history of that
\* participant exactly two messages, the instruction that ends the prompt
\* just sent and then the assistant reply (empty when the call failed), and
\* leaves every other history alone; in any state the history of a
\* participant holds, for each round it was called in, the instruction of
\* the round directly followed by its reply of the round.
C23_InstructionThenReply ==
    /\ [][\A c \in ChannelIds :
            (calls'[c] # calls[c] /\ IsParticipantCall(calls'[c][Len(calls'[c])])) =>
               LET call == calls'[c][Len(calls'[c])]
                   ch == _channels[c]
                   instruction == call.messages[Len(call.messages)]
               IN /\ instruction = RoundInstruction(call.round_idx)
                  /\ instruction.role = "user"
                  /\ _channels'[c]._history[call.agent] =
                        ch._history[call.agent]
                          \o <<instruction, Message("assistant", RawReply(call))>>
                  /\ \A a \in DOMAIN ch._history \ {call.agent} :
                        _channels'[c]._history[a] = ch._history[a]
         ]_vars
    /\ [](\A c \in ChannelIds :
            \A j \in 1..Len(calls[c]) :
               LET call == calls[c][j]
                   history == _channels[c]._history[call.agent]
                   r == call.round_idx
               IN IsParticipantCall(call) =>
                     /\ Len(history) >= 3 * r - 1
                     /\ history[3 * r - 2] = RoundInstruction(r)
                     /\ history[3 * r - 1] = Message("assistant", RawReply(call)))

\* A participant whose call failed in round 1 and succeeded in round 2: its
\* history is instruction 1, "", the guidance, instruction 2, "x".
C23_Witness ==
    \E c \in ChannelIds :
        \E i \in 1..Len(_channels[c].participants) :
            LET history == _channels[c]._history[_channels[c].participants[i]]
            IN /\ Len(history) = 5
               /\ history[1] = RoundInstruction(1)
               /\ history[2] = Message("assistant", << >>)
               /\ history[3].role = "assistant"
               /\ history[4] = RoundInstruction(2)
               /\ history[5] = Message("assistant", <<"x">>)

\* run() of run c has returned a value (whatever _run_channel did with it
\* afterwards).
RunReturned(c) ==
    \/ frames[c].pc \in {"returned", "update_db", "persist_message"}
    \/ frames[c].pc \in {"raised", "done"} /\ frames[c].exc \in {"", "Event loop is closed"}

\* The value came from `return content.strip()` of the consensus branch.
FromConsensusBranch(c) ==
    /\ IsGuidanceCall(LastCall(c))
    /\ IsConsensus(_parse_guidance(RawReply(LastCall(c))).status)
    /\ frames[c].answer = Strip(_parse_guidance(RawReply(LastCall(c))).content[1])

\* The value came from `return failure_summary` of the round-limit branch.
FromFailureBranch(c) ==
    /\ IsSummaryCall(LastCall(c))
    /\ LastCall(c).round_idx = _channels[c].max_rounds
    /\ frames[c].answer = EnsureFailedPrefix(RawReply(LastCall(c)))

CallCount(c, kind) == Cardinality({j \in 1..Len(calls[c]) : calls[c][j].kind = kind})

\* C25: a run that ended in round R with P participants has issued exactly
\* P*R participant calls and R moderator verdict calls, plus exactly one
\* failure-summary call if and only if it ended at R = max_rounds without
\* consensus (no call at all when no round ran); hence the moderator is
\* called at most max_rounds + 1 times in a run, at any point of it.
C25_CallCounts ==
    \A c \in ChannelIds :
        LET ch == _channels[c]
            R == ch.rounds_executed
            P == Len(ch.participants)
        IN /\ CallCount(c, "guidance") + CallCount(c, "summary") <= ch.max_rounds + 1
           /\ RunOver(c) =>
                /\ CallCount(c, "participant") = P * R
                /\ CallCount(c, "guidance") = R
                /\ CallCount(c, "summary") =
                      IF R >= 1 /\ R = ch.max_rounds /\ ~IsConsensus(frames[c].status)
                      THEN 1 ELSE 0
                /\ Len(calls[c]) = P * R + R + CallCount(c, "summary")

\* A run of two participants ended at the limit of two rounds without
\* consensus: four participant calls, two verdict calls, one summary call.
C25_Witness ==
    \E c \in ChannelIds :
        /\ RunOver(c)
        /\ Len(_channels[c].participants) = 2
        /\ _channels[c].rounds_executed = 2
        /\ CallCount(c, "participant") = 4
        /\ CallCount(c, "guidance") = 2
        /\ CallCount(c, "summary") = 1

\* The job of run c went through both of its scheduling calls and the loop
\* has run the write-back it scheduled.
WriteBackCompleted(c) ==
    /\ frames[c].pc = "done"
    /\ frames[c].exc = ""
    /\ \A t \in loop_tasks :
          t.fn = "_persist_consensus_message" => t.channel_id # c

\* C26 as stated: for any interleaving of the chat request handler (which
\* calls spawn_channel and only afterwards inserts and commits the
\* placeholder message) with the worker's completion and write-back, once
\* both have completed the thread holds exactly one assistant message for
\* that channel id and its content is the final answer.
C26_OneMessagePerRun ==
    \A i \in 1..Len(arrived) :
        (/\ arrived[i].caller = "send_message"
         /\ Len(arrived[i].channel_id) = 1
         /\ arrived[i].placeholder = "added"
         /\ WriteBackCompleted(arrived[i].channel_id[1])) =>
            LET c == arrived[i].channel_id[1]
            IN /\ Cardinality(RowsOf(db_messages, c)) = 1
               /\ \A j \in RowsOf(db_messages, c) :
                     /\ db_messages[j].role = "assistant"
                     /\ db_messages[j].content = frames[c].answer

\* pending -> running -> (finished | error)
StatusForward ==
    {<<"pending", "running">>, <<"running", "finished">>, <<"running", "error">>}

\* C27 as stated: the in-memory status of a run only moves forward along
\* pending -> running -> (finished | error); answer is non-null only in
\* status finished, error is set only in status error, and rounds_executed
\* in the status record is 0 until the run is finished.
C27_StatusMovesForward ==
    /\ [][\A c \in ChannelIds :
            ValidRun(c) =>
               \/ _channel_status'[c].status = _channel_status[c].status
               \/ <<_channel_status[c].status, _channel_status'[c].status>> \in StatusForward
         ]_vars
    /\ [](\A c \in ChannelIds :
            ValidRun(c) =>
               /\ _channel_status[c].answer # None => _channel_status[c].status = "finished"
               /\ _channel_status[c].error # None => _channel_status[c].status = "error"
               /\ _channel_status[c].status # "finished" =>
                     _channel_status[c].rounds_executed = 0)

\* C28: assuming every Gateway call returns and a busy pool worker
\* eventually finishes, every run accepted by spawn_channel eventually
\* reaches status finished or error, also when more runs are submitted than
\* the pool has workers (4): from some point on every accepted run is in a
\* terminal status.  The steps that change the locals of a job are exactly
\* the steps of the pool threads.
C28_EveryRunEnds ==
    /\ <>[](\A c \in ChannelIds : _channel_status[c].status \in {"finished", "error"})
    /\ [][WorkerMoved <=> \E c \in ChannelIds : WorkerStep(c)]_vars

\* Five runs were accepted: four occupy the four pool threads, one of them
\* already past a Gateway call, and the fifth waits pending in the queue.
C28_Witness ==
    /\ Len(_channel_status) = max_workers + 1
    /\ Cardinality(Busy) = max_workers
    /\ \E c \in Busy : Len(calls[c]) >= 1
    /\ \E c \in ChannelIds :
          /\ frames[c].pc = "queued"
          /\ _channel_status[c].status = "pending"
          /\ ~PoolHasRoom(c)

\* The send_message handlers of a chat that set the flag and have not yet
\* left through the finally that clears it.
InFlight(chat_id) ==
    {h \in HandlerIds : /\ handlers[h].kind = "send"
                        /\ handlers[h].chat_id = chat_id
                        /\ handlers[h].pc # "done"}

\* C29: however send_message and cancel_chat requests on one chat
\* interleave, at most one send_message handler of that chat is between
\* setting and clearing the busy flag, and a send_message that arrives while
\* one is there is answered 409.
C29_OneHandlerInFlight ==
    /\ [](\A chat_id \in ChatIds : Cardinality(InFlight(chat_id)) <= 1)
    /\ [][\A chat_id \in ChatIds :
            (/\ InFlight(chat_id) # {}
             /\ Len(handlers') = Len(handlers) + 1
             /\ handlers'[Len(handlers')].kind = "send"
             /\ handlers'[Len(handlers')].chat_id = chat_id)
            => handlers'[Len(handlers')].response = 409]_vars

\* The position of `agent` in self.participants.
Position(ch, agent) ==
    CHOOSE i \in 1..Len(ch.participants) : ch.participants[i] = agent

\* What the participant at position i is shown of the others in round n: the
\* moderator's reply of round n-1 from the moderator's history, the round-n
\* reply of every participant before i, and for every participant after i
\* the moderator's reply of round n-1 that closes its history.
PeerReplies(c, i, n) ==
    LET ch == _channels[c]
        mod == RawReply(CallOf(c, "guidance", ch.guiding_agent, n - 1))
    IN <<mod>> \o
       [k \in 1..(Len(ch.participants) - 1) |->
          IF k < i
          THEN RawReply(CallOf(c, "participant", ch.participants[k], n))
          ELSE mod]

====
